---- MODULE Spec2Model ----
(***************************************************************************)
(* A model of the ChessCoach search core: the shared MCTS node tree, the   *)
(* worker slots ("games") of the search threads, expansion ownership,      *)
(* virtual loss, backpropagation, mate proving and the principal           *)
(* variation (cpp/ChessCoach/SelfPlay.cpp).                                 *)
(*                                                                         *)
(* The position (legal moves, check, ...) and the neural network are       *)
(* external collaborators: the position is a fixed finite game tree drawn  *)
(* in Init, and PUCT scores (functions of the network's priors and values) *)
(* are inputs drawn per selection.                                         *)
(***************************************************************************)
EXTENDS Integers, Sequences, FiniteSets, TLC

\* ------------------------------------------------------------------ bounds

\* Cap on the number of simulations started (RunMcts passes that build a path).
MaxSims == 5

\* ---------------------------------------------------------- program constants

MaxMoves == 512
NoBest == 255
NonTerminal == -128
BOUND_NONE == 0
BOUND_UPPER == 1
BOUND_LOWER == 2
BOUND_EXACT == 3

\* Expansion
ExpNone == "None"
ExpExpanding == "Expanding"
ExpExpanded == "Expanded"

\* SelfPlayState
Working == "Working"
WaitingForPrediction == "WaitingForPrediction"

\* A float that is not a number, and the two immediate values.
NaN == "NaN"
ValueWin == "WIN"
ValueDraw == "DRAW"
ValueNet == "NET"

\* ------------------------------------------------------- the position (external)

\* Node ids are arena addresses. The child array that Expand allocates for a
\* node holds one Node per legal move of the node's position.
NoNode == 0
Nodes == 1..7

\* The search root.
RootNode == 1

\* The positions explored: the legal moves of each node's position, as the
\* nodes they lead to, and the nodes whose position has the side to move in check.
MovesA ==
    [n \in Nodes |-> CASE n = 1 -> <<2, 3, 7>>
                       [] n = 2 -> <<4>>
                       [] n = 4 -> <<5, 6>>
                       [] OTHER -> <<>>]
MovesB ==
    [n \in Nodes |-> CASE n = 1 -> <<2, 3>>
                       [] n = 2 -> <<4, 7>>
                       [] n = 4 -> <<5, 6>>
                       [] OTHER -> <<>>]
\* A root without legal moves.
MovesNone == [n \in Nodes |-> <<>>]
Positions ==
    { [moves |-> MovesA, checkers |-> {3, 5}],
      [moves |-> MovesA, checkers |-> {5}],
      [moves |-> MovesB, checkers |-> {5}],
      [moves |-> MovesNone, checkers |-> {}] }

\* ------------------------------------------------------------ threads and slots

NoSlot == "none"
Slots == {"a1", "a2", "b1"}
Threads == {"A", "B"}
ThreadOf == [s \in Slots |-> IF s = "b1" THEN "B" ELSE "A"]
SlotsOf(t) == {s \in Slots : ThreadOf[s] = t}
SlotIndex == [s \in Slots |-> IF s = "a2" THEN 2 ELSE 1]

VARIABLES
    tree,          \* [Nodes -> Node record]: the shared node tree
    slot,          \* [Slots -> per-slot state of RunMcts]
    active,        \* [Threads -> the slot whose RunMcts call is running, or NoSlot]
    finalized,     \* [Threads -> BOOLEAN]: the thread left its search loop and ran FinalizeMcts
    allWorkItemsCompleted,   \* WorkCoordinator's stop flag
    searchThreads, \* Config::Misc.Search_SearchThreads
    position,      \* the position searched, one of Positions
    puct,          \* one PuctContext::SelectChild call: its inputs and its result
    nodeCount,     \* SearchState::nodeCount
    failedNodeCount,         \* SearchState::failedNodeCount
    principalVariationChanged,
    started,       \* simulations started so far (bounded by MaxSims)
    takes,         \* [Nodes -> count of None->Expanding since the node last left Expanding]
    tables,        \* PredictionCache: [count, chunksPerTable] of _tables and _chunksPerTable
    chunks,        \* [Addresses -> chunk]: the chunks of the tables that the keys address
    pending,       \* the cacheStore pointers handed out by missed probes and not yet used
    metrics,       \* _hitCount, _evictionCount, _probeCount, _entryCount
    history,       \* the calls made on the cache so far, with their results
    writer,        \* [Threads -> the Put call a thread is in the middle of]
    writtenBy,     \* [entry -> the Put calls that wrote its key, value and priors]
    alloc,         \* PredictionCache::Allocate: its arguments, its loop and what is allocated
    search,        \* the primary worker's LoopSearch: time control, clock, root, last check
    rep,           \* one leaf of a game line: its repetition, the search root's ply, its visits
    sel,           \* one SelectMove call: the priors, the game's flags and the node returned
    searchGame,    \* _games[0] of the search worker: its root, the node heap, the position set up
    uci,           \* the UCI front end: its worker and the positions it has signalled
    backprop,      \* the Backpropagate call of each thread, and the calls made through each node
    mate,          \* the last simulation of a one-threaded search that proves mates
    expand,        \* ExpandAndEvaluate of two games on shared leaves, and its calls on the cache
    demote,        \* threads proving one node lost: Node::SetTerminalValue step by step
    azPuct,        \* one PuctContext::CalculateAzPuctScore call: its inputs and its terms
    pvs,           \* search threads updating the principal variation and the primary worker reporting it
    queue          \* one SyncQueue with its producer and consumers

raceVars == <<writer, writtenBy>>

cacheVars == <<tables, chunks, pending, metrics, history, raceVars>>

timeVars == <<search>>

extraVars == <<rep, sel, searchGame, uci, backprop>>

\* The state of the specifications of single units, and for each of them the
\* state of the others.
unitVars == <<mate, expand, demote, azPuct, pvs, queue>>
mateOthers == <<expand, demote, azPuct, pvs, queue>>
expandOthers == <<mate, demote, azPuct, pvs, queue>>
demoteOthers == <<mate, expand, azPuct, pvs, queue>>
azPuctOthers == <<mate, expand, demote, pvs, queue>>
pvsOthers == <<mate, expand, demote, azPuct, queue>>
queueOthers == <<mate, expand, demote, azPuct, pvs>>

nonCacheVars == <<alloc, timeVars, extraVars, unitVars>>

otherVars == <<cacheVars, nonCacheVars>>

vars == <<tree, slot, active, finalized, allWorkItemsCompleted, searchThreads, position, puct,
          nodeCount, failedNodeCount, principalVariationChanged, started, takes, otherVars>>

LegalMoves == position.moves
checkers == position.checkers

\* ------------------------------------------------------------- TerminalValue

Draw == 0
MateIn(n) == n
OpponentMateIn(n) == -n

IsTerminal(v) == v # NonTerminal
IsImmediate(v) == (v = Draw) \/ (v = MateIn(1))
\* A variant that values every immediate terminal as a draw.
ImmediateValueAlwaysDraw(v) == ValueDraw
ImmediateValue(v) == IF v = MateIn(1) THEN ValueWin ELSE ValueDraw
IsMateInN(v) == IsTerminal(v) /\ v > 0
IsOpponentMateInN(v) == IsTerminal(v) /\ v < 0
Max(a, b) == IF a >= b THEN a ELSE b
Min(a, b) == IF a <= b THEN a ELSE b
MateN(v) == IF IsTerminal(v) THEN Max(0, v) ELSE 0
OpponentMateN(v) == IF IsTerminal(v) THEN Max(0, -v) ELSE 0
EitherMateN(v) == IF IsTerminal(v) THEN v ELSE 0

\* ---------------------------------------------------------------------- Node

\* valueAverage, valueWeight and quantizedPrior are read only by the PUCT scores
\* and written by value sampling; the scores are inputs here, so the record
\* keeps the fields that expansion, visit accounting, mate proving and the
\* principal variation read and write.
NewNode ==
    [children |-> <<>>, childCount |-> 0, bestIndex |-> NoBest,
     tablebaseRankBound |-> 0, visitCount |-> 0, visitingCount |-> 0,
     terminalValue |-> NonTerminal, expansion |-> ExpNone]

IsExpanded(t, n) == t[n].children # <<>>
TablebaseRank(t, n) == t[n].tablebaseRankBound \div 4
GetBound(t, n) == t[n].tablebaseRankBound % 4
BuildTablebaseRankBound(rank, bound) == rank * 4 + bound

BestChild(t, n) ==
    IF t[n].bestIndex = NoBest THEN NoNode ELSE t[n].children[t[n].bestIndex + 1]

IndexOf(seq, x) == CHOOSE i \in 1..Len(seq) : seq[i] = x

\* A variant that never replaces a best child once one is set.
SetBestChildOnce(t, n, bestChild) ==
    IF t[n].bestIndex = NoBest
    THEN [t EXCEPT ![n].bestIndex = IndexOf(t[n].children, bestChild) - 1]
    ELSE t

SetBestChild(t, n, bestChild) ==
    [t EXCEPT ![n].bestIndex = IndexOf(t[n].children, bestChild) - 1]

SetTablebaseRankBound(t, n, rank, bound) ==
    [t EXCEPT ![n].tablebaseRankBound = BuildTablebaseRankBound(rank, bound)]

SetTerminalValue(t, n, value) ==
    LET eitherMateN == EitherMateN(value)
        bound == IF eitherMateN = 0 THEN BOUND_EXACT
                 ELSE IF eitherMateN < 0 THEN BOUND_UPPER ELSE BOUND_LOWER
        stored == [t EXCEPT ![n].terminalValue = value]
    IN SetTablebaseRankBound(stored, n, TablebaseRank(stored, n), bound)

\* ------------------------------------------------------------- PuctContext

NegativeInfinity == -1000000
SeqMax(f, seq) ==
    LET m[i \in 0..Len(seq)] ==
            IF i = 0 THEN NegativeInfinity ELSE Max(m[i - 1], f[seq[i]])
    IN m[Len(seq)]

\* PuctContext::SelectChild over the scored children. "scored" is ScoredNodes after
\* std::nth_element (a sequence of children), az[c] the child's AZ-PUCT score,
\* linear[c] the linear exploration term CalculateSblePuctScore adds, topCount is
\* _eliminationTopCount and expansionOf[c] what the relaxed load of c's expansion
\* returns. The result is the WeightedNode {maxSble, weight}.
SblePuct(scored, az, linear, topCount, i) ==
    IF i <= topCount THEN az[scored[i]] + linear[scored[i]] ELSE az[scored[i]]

\* A variant that blocks nothing.
BlockedNever(expansionOf, child) == FALSE

\* The relaxed load of the child's expansion: blocked when it reads Expanding.
Blocked(expansionOf, child) == expansionOf[child] = ExpExpanding

SelectChildScan(scored, az, linear, topCount, expansionOf) ==
    LET scan[i \in 0..Len(scored)] ==
            IF i = 0
            THEN [maxSblePuct |-> NegativeInfinity, azOfMaxSble |-> NegativeInfinity,
                  maxSblePuctIncludingBlocked |-> NegativeInfinity,
                  maxSble |-> NoNode, bestWasBlocked |-> FALSE, loads |-> {}]
            ELSE LET prev == scan[i - 1]
                     child == scored[i]
                     sblePuct == SblePuct(scored, az, linear, topCount, i)
                     blocked == Blocked(expansionOf, child)
                 IN IF sblePuct > prev.maxSblePuct
                    THEN [maxSblePuct |-> IF blocked THEN prev.maxSblePuct ELSE sblePuct,
                          azOfMaxSble |-> IF blocked THEN prev.azOfMaxSble ELSE az[child],
                          maxSble |-> IF blocked THEN prev.maxSble ELSE child,
                          maxSblePuctIncludingBlocked |->
                              IF sblePuct > prev.maxSblePuctIncludingBlocked
                              THEN sblePuct ELSE prev.maxSblePuctIncludingBlocked,
                          bestWasBlocked |->
                              IF sblePuct > prev.maxSblePuctIncludingBlocked
                              THEN blocked ELSE prev.bestWasBlocked,
                          loads |-> prev.loads \cup {child}]
                    ELSE prev
    IN scan[Len(scored)]

\* The weight as if the best child were never blocked.
WeightIgnoringBlocked(bestWasBlocked, maxAzPuct, azOfMaxSble, threshold) ==
    IF maxAzPuct - azOfMaxSble <= threshold THEN 1 ELSE 0

\* The weight bit: (!bestWasBlocked) & ((maxAzPuct - azOfMaxSble) <= threshold).
Weight(bestWasBlocked, maxAzPuct, azOfMaxSble, threshold) ==
    IF (~bestWasBlocked) /\ (maxAzPuct - azOfMaxSble <= threshold) THEN 1 ELSE 0

SelectChild(scored, az, linear, topCount, expansionOf, threshold) ==
    LET final == SelectChildScan(scored, az, linear, topCount, expansionOf)
        maxAzPuct == SeqMax(az, scored)
    IN [node |-> final.maxSble,
        weight |-> Weight(final.bestWasBlocked, maxAzPuct, final.azOfMaxSble, threshold),
        loads |-> final.loads]

NoSelection ==
    [phase |-> "none", scored |-> <<>>, az |-> <<>>, linear |-> <<>>, topCount |-> 0,
     expansionOf |-> <<>>, threshold |-> 0,
     result |-> [node |-> NoNode, weight |-> 0, loads |-> {}]]

\* ------------------------------------------------------- PredictionCache

MaxMoveCount == 56
EntryCount == 8
MaxTableCount == 256
MaxChunksPerTable == 1048576
IntMin == (-2147483647) - 1
allowance == 120

\* INetwork::QuantizeProbabilityNoZero of the probability num/den: monotone,
\* never zero, 65535 for 1.0, accurate to about one quantum.
QuantizeProbabilityNoZero(num, den) == Max(1, (2 * num * 65535 + den) \div (2 * den))

\* INetwork::DequantizeProbabilityNoZero: the probability quantum/65535.
DequantizeProbabilityNoZero(quantum) == [num |-> quantum, den |-> QuantizeProbabilityNoZero(1, 1)]

expectedSum == QuantizeProbabilityNoZero(1, 1)

\* A 64-bit key, in the three parts TryGetPrediction takes apart: key >> 48,
\* bits 20..47 and bits 0..19.
ZeroKey == [table |-> 0, high |-> 0, low |-> 0]
KeyA == [table |-> 257, high |-> 7, low |-> 7]
KeyC == [table |-> 1, high |-> 0, low |-> 0]
Keys == {ZeroKey, KeyA, KeyC}

RECURSIVE Xor(_, _)
Xor(a, b) ==
    IF a = 0 THEN b
    ELSE IF b = 0 THEN a
    ELSE 2 * Xor(a \div 2, b \div 2) + (((a % 2) + (b % 2)) % 2)

\* The table and the chunk a key addresses.
ChunkOf(key, geometry) ==
    LET tableKeyXor == Xor(key.table % 256, key.table \div 256)
        chunkKeyXor == Xor(key.low, key.high)
    IN <<tableKeyXor % geometry.count, chunkKeyXor % geometry.chunksPerTable>>

NoTables == [count |-> 0, chunksPerTable |-> 0]
TwoTables == [count |-> 2, chunksPerTable |-> MaxChunksPerTable \div 2]
Addresses == {ChunkOf(k, TwoTables) : k \in Keys}
NoChunk == <<>>

\* The values and the priors a prediction may hold.  Priors are given as
\* weights: the prior of move m is weights[m] / Sum(weights).
Values == {25, 75}
NoValue == 0
MoveCounts == {2, MaxMoveCount}
Uniform(moveCount) == [m \in 1..moveCount |-> 1]
Peaked(moveCount) == [m \in 1..moveCount |-> IF m = 1 THEN 1 ELSE 0]
Distributions(moveCount) == {Uniform(moveCount), Peaked(moveCount)}

RECURSIVE SumTo(_, _)
SumTo(seq, n) == IF n = 0 THEN 0 ELSE seq[n] + SumTo(seq, n - 1)

\* What freshly allocated memory may hold in the fields Clear leaves alone:
\* zeros (VirtualAlloc) or anything (std::aligned_alloc).
ZeroFill == [m \in 1..MaxMoveCount |-> 0]
GarbageFill == [m \in 1..MaxMoveCount |-> IF m = 1 THEN expectedSum ELSE 0]
Fills == {ZeroFill, GarbageFill}

\* An entry: the four fields, and what the last Put on it wrote (moveCount 0:
\* never put; whole: no field was overwritten since).
FreshEntry(fill) ==
    [key |-> ZeroKey, value |-> NoValue, age |-> 0, policyPriors |-> fill,
     moveCount |-> 0, whole |-> TRUE]
FreshChunk(fill) == [i \in 1..EntryCount |-> FreshEntry(fill)]

\* PredictionCacheChunk::Clear
ChunkClear(chunk) ==
    [i \in 1..EntryCount |-> [chunk[i] EXCEPT !.key = ZeroKey, !.age = 0]]

\* The first entry holding the key, 0 when there is none.
FirstWithKey(chunk, key) ==
    IF \E i \in 1..EntryCount : chunk[i].key = key
    THEN CHOOSE i \in 1..EntryCount :
            chunk[i].key = key /\ \A j \in 1..(i - 1) : chunk[j].key # key
    ELSE 0

\* The prior-sum check as if every sum were accepted.
SumAcceptedAlways(priorSum) == TRUE

\* The prior-sum check of TryGet.
SumAccepted(priorSum) ==
    ~((priorSum < expectedSum - allowance) \/ (priorSum > expectedSum + allowance))

\* The age of the matching entry as if every probe freshened it.
AgeAfterProbeAlwaysFresh(accepted, age) == IntMin

\* The age of the matching entry after the probe: freshened only when the
\* entry is accepted.
AgeAfterProbe(accepted, age) == IF accepted THEN IntMin ELSE age

\* PredictionCacheChunk::TryGet
ChunkTryGet(chunk, key, moveCount) ==
    LET aged == [i \in 1..EntryCount |-> [chunk[i] EXCEPT !.age = @ + 1]]
        i == FirstWithKey(aged, key)
        priorSum == IF i = 0 THEN 0 ELSE SumTo(aged[i].policyPriors, moveCount)
        accepted == i # 0 /\ SumAccepted(priorSum)
    IN [chunk |-> IF i # 0 THEN [aged EXCEPT ![i].age = AgeAfterProbe(accepted, @)] ELSE aged,
        hit |-> accepted,
        value |-> IF accepted THEN aged[i].value ELSE NoValue,
        priors |-> IF i # 0
                   THEN [m \in 1..moveCount |-> DequantizeProbabilityNoZero(aged[i].policyPriors[m])]
                   ELSE <<>>,
        index |-> i]

\* The entry to replace as if an entry holding the key were not looked for.
RECURSIVE OldestIndexByAge(_, _, _, _)
OldestIndexByAge(chunk, key, i, oldestIndex) ==
    IF i > EntryCount THEN oldestIndex
    ELSE OldestIndexByAge(chunk, key, i + 1,
                          IF chunk[i].age > chunk[oldestIndex].age THEN i ELSE oldestIndex)

\* The entry Put replaces: the first one holding the key, else the oldest.
RECURSIVE OldestIndex(_, _, _, _)
OldestIndex(chunk, key, i, oldestIndex) ==
    IF i > EntryCount THEN oldestIndex
    ELSE IF chunk[i].key = key THEN i
    ELSE OldestIndex(chunk, key, i + 1,
                     IF chunk[i].age > chunk[oldestIndex].age THEN i ELSE oldestIndex)

\* The priors as if no guard were placed.
WithoutGuard(policyPriors, moveCount) == policyPriors

\* The guard probability of 1.0 placed after the moveCount priors.
WithGuard(policyPriors, moveCount) ==
    IF moveCount < MaxMoveCount
    THEN [policyPriors EXCEPT ![moveCount + 1] = QuantizeProbabilityNoZero(1, 1)]
    ELSE policyPriors

\* The value field as if Put left it alone.
StoredValueKept(old, value) == old

\* _entries[oldestIndex].value = value
StoredValue(old, value) == value

\* PredictionCacheChunk::Put
ChunkPut(chunk, key, value, moveCount, priors) ==
    LET oldestIndex == OldestIndex(chunk, key, 1, 1)
        total == SumTo(priors, moveCount)
        written == [m \in 1..MaxMoveCount |->
                       IF m <= moveCount THEN QuantizeProbabilityNoZero(priors[m], total)
                       ELSE chunk[oldestIndex].policyPriors[m]]
    IN [chunk |-> [chunk EXCEPT ![oldestIndex] =
                      [key |-> key, value |-> StoredValue(chunk[oldestIndex].value, value),
                       age |-> IntMin,
                       policyPriors |-> WithGuard(written, moveCount),
                       moveCount |-> moveCount, whole |-> TRUE]],
        index |-> oldestIndex,
        evicted |-> chunk[oldestIndex].key # ZeroKey]

NoMetrics == [hitCount |-> 0, evictionCount |-> 0, probeCount |-> 0, entryCount |-> 0]

\* The keys, the move count and the values of the threads that race on one
\* chunk: both keys address chunk 0 of table 0.
KeyB == [table |-> 0, high |-> 5, low |-> 5]
RaceKeys == {KeyA, KeyB}
RaceChunk == ChunkOf(KeyA, TwoTables)
RaceMoveCount == 2
RaceValue == [t \in Threads |-> IF t = "A" THEN 25 ELSE 75]
RacePriors == [t \in Threads |-> IF t = "A" THEN Uniform(RaceMoveCount) ELSE Peaked(RaceMoveCount)]

\* No Put call is running, and no entry was written by any.
NoWriter ==
    [pc |-> "idle", key |-> ZeroKey, value |-> NoValue, priors |-> <<>>,
     oldestIndex |-> 0, m |-> 0, id |-> 0]
NotWritten == [key |-> 0, value |-> 0, priors |-> [m \in 1..RaceMoveCount |-> 0]]
RaceIdle ==
    /\ writer = [t \in Threads |-> NoWriter]
    /\ writtenBy = [i \in 1..EntryCount |-> NotWritten]

\* The cache before it is allocated.
CacheIdle ==
    /\ tables = NoTables
    /\ chunks = [a \in Addresses |-> FreshChunk(ZeroFill)]
    /\ pending = {}
    /\ metrics = NoMetrics
    /\ history = <<>>
    /\ RaceIdle

\* No Allocate call is running and nothing is allocated.
NotAllocated ==
    [pc |-> "idle", requestGib |-> 0, minGib |-> 0, sizeGib |-> 0, chunksPerTable |-> 0,
     allocatedRequestGib |-> 0, allocatedMinGib |-> 0, live |-> 0, tried |-> {},
     outcome |-> "none"]

\* What Allocate leaves behind when it allocated one GiB in the given tables.
AllocatedAs(geometry) ==
    IF geometry.count = 0 THEN NotAllocated
    ELSE [NotAllocated EXCEPT !.allocatedRequestGib = 1, !.allocatedMinGib = 1,
                              !.sizeGib = 1, !.chunksPerTable = geometry.chunksPerTable,
                              !.live = geometry.count, !.outcome = "allocated"]

\* ------------------------------------------------------------- time control

\* Config::Misc: the time-control settings of the configuration explored.
Misc ==
    [TimeControl_FractionOfRemaining |-> 20,
     TimeControl_SafetyBufferMoveMilliseconds |-> 100,
     TimeControl_AbsoluteMinimumMilliseconds |-> 50]

\* TimeControl, with timeRemainingMs and incrementMs of the side to play.
NoTimeControl ==
    [infinite |-> FALSE, pondering |-> FALSE, nodes |-> 0, mate |-> 0, moveTimeMs |-> 0,
     timeRemainingMs |-> 0, incrementMs |-> 0, movesToGo |-> 0]

\* The "go" commands explored: every combination of the limits, so that an
\* infinite search also carries a node budget, a mate distance and clocks.
TimeControls ==
    {timeControl \in [infinite : BOOLEAN, pondering : BOOLEAN, nodes : {0, 1, 2}, mate : {0, 2},
                      moveTimeMs : {0, 5000}, timeRemainingMs : {0, 100000},
                      incrementMs : {0}, movesToGo : {0}] :
        timeControl.pondering => timeControl.timeRemainingMs > 0}

\* The readings of the clock since searchStart, in milliseconds.
Times == <<0, 3000, 5000>>

\* What CheckTimeControl reads of the tree: the root's expansion, terminal value
\* and child count, and whether it has a best child and that child's terminal value.
NewRoot(moves, inCheck) ==
    [moves |-> moves, inCheck |-> inCheck, expanded |-> FALSE, terminalValue |-> NonTerminal,
     childCount |-> 0, hasBest |-> FALSE, bestTerminalValue |-> NonTerminal]

\* The root positions explored: checkmate, stalemate, one legal move, two.
Roots == {NewRoot(0, TRUE), NewRoot(0, FALSE), NewRoot(1, FALSE), NewRoot(2, FALSE)}

\* The terminal values a simulation can leave on the root's best child.
BestTerminalValues == {NonTerminal, MateIn(1), MateIn(3)}

\* A variant in which infinite think has no priority.
InfiniteThinkIgnored(timeControl) == FALSE

\* "Infinite think takes priority: nothing else can stop the search."
InfiniteThink(timeControl) == timeControl.infinite

\* A variant that stops only past the node budget.
NodesExceeded(count, nodes) == count > nodes

\* "Nodes can stop the search."
NodesReached(count, nodes) == count >= nodes

\* The time the game clock allows for this move.
ClockTimeAllowed(timeControl) ==
    LET totalTimeAllowed == timeControl.timeRemainingMs
        fraction == IF timeControl.movesToGo > 0
                    THEN Min(Misc.TimeControl_FractionOfRemaining, timeControl.movesToGo)
                    ELSE Misc.TimeControl_FractionOfRemaining
        increment == timeControl.incrementMs
        excludingIncrement == Max(0, totalTimeAllowed - increment)
        fractionPlusIncrement == (excludingIncrement \div fraction) + increment
    IN Max(Max(1, Misc.TimeControl_AbsoluteMinimumMilliseconds),
           Min(fractionPlusIncrement, totalTimeAllowed)
              - Misc.TimeControl_SafetyBufferMoveMilliseconds)

\* SelfPlayWorker::CheckTimeControl: the rule that calls OnWorkItemCompleted, in
\* the order of the code, or "none" when the check returns without calling it.
TimeControlRule(timeControl, root, count, searchTimeMs) ==
    IF ~root.hasBest
    THEN IF IsImmediate(root.terminalValue) THEN "terminalRoot" ELSE "none"
    ELSE IF InfiniteThink(timeControl) THEN "none"
    ELSE IF /\ timeControl.mate > 0
            /\ EitherMateN(root.bestTerminalValue) > 0
            /\ EitherMateN(root.bestTerminalValue) <= timeControl.mate
    THEN "mate"
    ELSE IF timeControl.nodes > 0 /\ NodesReached(count, timeControl.nodes) THEN "nodes"
    ELSE IF timeControl.moveTimeMs > 0 /\ searchTimeMs >= timeControl.moveTimeMs THEN "moveTime"
    ELSE IF timeControl.timeRemainingMs > 0 /\ searchTimeMs >= ClockTimeAllowed(timeControl)
    THEN "clock"
    ELSE IF /\ timeControl.timeRemainingMs > 0
            /\ ~timeControl.pondering
            /\ root.expanded
            /\ root.childCount = 1
    THEN "onlyMove"
    ELSE IF /\ timeControl.timeRemainingMs > 0
            /\ ~timeControl.pondering
            /\ searchTimeMs >= 3000
            /\ IsMateInN(root.bestTerminalValue)
    THEN "forcedMate"
    ELSE IF /\ timeControl.nodes <= 0
            /\ timeControl.mate <= 0
            /\ timeControl.moveTimeMs <= 0
            /\ timeControl.timeRemainingMs <= 0
            /\ searchTimeMs >= Misc.TimeControl_AbsoluteMinimumMilliseconds
    THEN "minimum"
    ELSE "none"

NoCheck == [rule |-> "unchecked", nodeCount |-> 0, searchTimeMs |-> 0, hadBest |-> FALSE]

\* No search has been set up.
NoSearch ==
    [pc |-> "finished", timeControl |-> NoTimeControl, clock |-> 1, root |-> NewRoot(0, FALSE),
     secondary |-> "idle", checked |-> NoCheck]

\* --------------------------------------------------------------- repetition

\* The plies of the game lines explored.
MaxPly == 5

\* StateInfo::repetition of the leaf's position: the distance in plies to its
\* previous occurrence, negative when that occurrence was itself a repetition,
\* zero when there is none.
Repetitions == {-4, 0, 2, 4}

\* A variant that counts a repetition wherever its earlier occurrence lies.
IsDrawByRepetitionAnywhere(repetition, plyToSearchRoot) == repetition > 0

\* SelfPlayGame::IsDrawByTwofoldRepetition
IsDrawByTwofoldRepetition(repetition, plyToSearchRoot) ==
    (repetition > 0) /\ (repetition < plyToSearchRoot)

\* No game line is set up.
NoRep ==
    [pc |-> "none", ply |-> 0, repetition |-> 0, noProgressOrThreefold |-> FALSE,
     workingMoveCount |-> 0, inCheck |-> FALSE, searchRootPly |-> 0,
     terminalValue |-> NonTerminal, expansion |-> ExpNone, childCount |-> 0,
     state |-> Working, value |-> NaN, scoredTwofold |-> FALSE]

\* No SelectMove call is modelled.
NoSel ==
    [pc |-> "none", quantizedPrior |-> [n \in Nodes |-> 0],
     game |-> [tryHard |-> FALSE, allowDiversity |-> FALSE, samplingPly |-> FALSE,
               diversityPly |-> FALSE, lowMaterial |-> FALSE],
     result |-> NoNode]

\* The addresses nodes are allocated at, and the state of each allocation.
MaxHeapNodes == 6
HeapNodes == 1..MaxHeapNodes
Unused == "unused"
Live == "live"
Freed == "freed"
FreedTwice == "freed twice"

\* No SearchUpdatePosition call has been made.
NoCall == [fen |-> "", moves |-> <<>>, forceNewPosition |-> FALSE, reused |-> FALSE, tail |-> 0]

\* SelfPlayGame::SelfPlayGame() and the search state before the first position:
\* no root, nothing allocated, no position.
NoSearchGame ==
    [root |-> NoNode, status |-> [a \in HeapNodes |-> Unused], tryHard |-> FALSE,
     positionFen |-> "", positionMoves |-> <<>>, searchRootPly |-> 0, call |-> NoCall]

\* No position command has been handled.
NoCommand == [first |-> "", fen |-> "", moves |-> <<>>]

\* ChessCoachUci after construction: no worker, nothing signalled.
NoUci ==
    [worker |-> FALSE, signalled |-> <<>>, last |-> NoCommand, lastSignalled |-> FALSE,
     failed |-> FALSE]

\* The nodes of the tree that values are backpropagated in.
ValueNodes == 1..5

\* No Backpropagate call is running or has run.
NoBackpropagate ==
    [pc |-> "idle", path |-> <<>>, value |-> 0, rootValue |-> 0, i |-> 0, weight |-> 1,
     newWeight |-> 0, k |-> 0, visited |-> <<>>, sampled |-> {}, forgave |-> FALSE]

NoBackprop ==
    [call |-> [t \in {"A", "B"} |-> NoBackpropagate], through |-> [n \in ValueNodes |-> 0],
     calls |-> 0]

\* No simulation has run in the search that proves mates.
NoMate == [path |-> <<>>, before |-> <<>>, proved |-> FALSE, levels |-> 0, simulations |-> 0]

\* No game has called ExpandAndEvaluate.
NoExpand == [config |-> <<>>, leaf |-> <<>>, game |-> <<>>, calls |-> 0]

NoDemote == [node |-> <<>>, original |-> 0, pc |-> <<>>, bound |-> <<>>, rank |-> <<>>,
             previous |-> <<>>,
             loaded |-> <<>>, calls |-> 0, divisions |-> 0]

NoAzPuct == [phase |-> "none", child |-> <<>>, explorationNumerator |-> 0, terms |-> <<>>]

NoPvs == [tree |-> <<>>, threads |-> 0, worker |-> <<>>, changed |-> FALSE, check |-> <<>>,
          reported |-> <<>>, simulations |-> 0]

NoQueue == [hasItem |-> FALSE, item |-> "none", consumers |-> 0, pc |-> <<>>, got |-> <<>>, result |-> <<>>,
            pushedSince |-> <<>>, pushed |-> FALSE, holders |-> {}]

UnitIdle == mate = NoMate /\ expand = NoExpand /\ demote = NoDemote /\ azPuct = NoAzPuct /\ pvs = NoPvs /\ queue = NoQueue
mateOthersIdle == expand = NoExpand /\ demote = NoDemote /\ azPuct = NoAzPuct /\ pvs = NoPvs /\ queue = NoQueue
expandOthersIdle == mate = NoMate /\ demote = NoDemote /\ azPuct = NoAzPuct /\ pvs = NoPvs /\ queue = NoQueue
demoteOthersIdle == mate = NoMate /\ expand = NoExpand /\ azPuct = NoAzPuct /\ pvs = NoPvs /\ queue = NoQueue
azPuctOthersIdle == mate = NoMate /\ expand = NoExpand /\ demote = NoDemote /\ pvs = NoPvs /\ queue = NoQueue
pvsOthersIdle == mate = NoMate /\ expand = NoExpand /\ demote = NoDemote /\ azPuct = NoAzPuct /\ queue = NoQueue
queueOthersIdle == mate = NoMate /\ expand = NoExpand /\ demote = NoDemote /\ azPuct = NoAzPuct /\ pvs = NoPvs

ExtraIdle ==
    rep = NoRep /\ sel = NoSel /\ searchGame = NoSearchGame /\ uci = NoUci /\ backprop = NoBackprop

OtherIdle == CacheIdle /\ alloc = NotAllocated /\ search = NoSearch /\ ExtraIdle /\ UnitIdle

\* ------------------------------------------------------------------ slots

NewSlot ==
    [state |-> Working, pc |-> "idle", searchPath |-> <<>>, value |-> NaN,
     wasImmediateMate |-> FALSE, isSearchRoot |-> FALSE, index |-> 0,
     childIsMate |-> FALSE, loaded |-> NonTerminal, isPrincipalVariation |-> FALSE,
     owned |-> NoNode]

Last(seq) == seq[Len(seq)]
ScratchRoot(s) == Last(slot[s].searchPath)

\* The thread of slot s is inside its search loop and either runs s or runs nothing.
\* The configurations explored: one search thread with two slots (games sharing
\* the tree), or two search threads with one slot each.
SearchParallelism == IF searchThreads = 1 THEN 2 ELSE 1
ThreadRuns(t) == (t = "A") \/ (searchThreads = 2)

Runs(s) ==
    /\ ThreadRuns(ThreadOf[s])
    /\ SlotIndex[s] <= SearchParallelism
    /\ ~finalized[ThreadOf[s]]
    /\ active[ThreadOf[s]] \in {s, NoSlot}

Init ==
    /\ tree = [n \in Nodes |-> NewNode]
    /\ slot = [s \in Slots |-> NewSlot]
    /\ active = [t \in Threads |-> NoSlot]
    /\ finalized = [t \in Threads |-> FALSE]
    /\ allWorkItemsCompleted = FALSE
    /\ searchThreads \in {1, 2}
    /\ position \in Positions
    /\ puct = NoSelection
    /\ nodeCount = 0
    /\ failedNodeCount = 0
    /\ principalVariationChanged = FALSE
    /\ started = 0
    /\ takes = [n \in Nodes |-> 0]
    /\ OtherIdle

\* -------------------------------------------------------- helpers over paths

Range(seq) == {seq[i] : i \in 1..Len(seq)}

\* A variant that releases the first node of the path twice.
ReleaseVisitingTwiceAtFirst(t, path) ==
    [n \in Nodes |-> IF n \in Range(path)
                     THEN [t[n] EXCEPT !.visitingCount = @ - (IF n = path[1] THEN 2 ELSE 1)]
                     ELSE t[n]]

\* fetch_sub(1) of visitingCount on every node of the search path.
ReleaseVisiting(t, path) ==
    [n \in Nodes |-> IF n \in Range(path) THEN [t[n] EXCEPT !.visitingCount = @ - 1] ELSE t[n]]

\* A variant that stores without comparing.
CompareExchangeExpansionBlind(t, node, expected, desired) ==
    [ok |-> TRUE, tree |-> [t EXCEPT ![node].expansion = desired]]

\* compare_exchange_strong on a node's expansion.
CompareExchangeExpansion(t, node, expected, desired) ==
    IF t[node].expansion = expected
    THEN [ok |-> TRUE, tree |-> [t EXCEPT ![node].expansion = desired]]
    ELSE [ok |-> FALSE, tree |-> t]

\* A variant that only refuses a node already published as Expanded.
TakeExpansionOwnershipUnlessExpanded(t, node) ==
    [ok |-> t[node].expansion # ExpExpanded,
     tree |-> IF t[node].expansion # ExpExpanded THEN [t EXCEPT ![node].expansion = ExpExpanding] ELSE t]

TakeExpansionOwnership(t, node) ==
    CompareExchangeExpansion(t, node, ExpNone, ExpExpanding)

\* A variant that forgets the count.
ExpandWithoutCount(t, node) ==
    [t EXCEPT ![node].children = LegalMoves[node]]

\* SelfPlayGame::Expand: allocate the child array, one Node per legal move.
Expand(t, node) ==
    [t EXCEPT ![node].children = LegalMoves[node], ![node].childCount = Len(LegalMoves[node])]

\* SelfPlayWorker::WorseThan; lhs may be null (NoNode).
CategoryKey(eitherMateN) ==
    eitherMateN + ((IF eitherMateN < 0 THEN 1 ELSE 0) - (IF eitherMateN > 0 THEN 1 ELSE 0)) * 2 * MaxMoves

WorseThan(t, lhs, rhs) ==
    IF lhs = NoNode THEN TRUE
    ELSE IF TablebaseRank(t, lhs) # TablebaseRank(t, rhs)
         THEN TablebaseRank(t, lhs) < TablebaseRank(t, rhs)
    ELSE IF EitherMateN(t[lhs].terminalValue) # EitherMateN(t[rhs].terminalValue)
         THEN CategoryKey(EitherMateN(t[lhs].terminalValue)) > CategoryKey(EitherMateN(t[rhs].terminalValue))
    ELSE t[lhs].visitCount < t[rhs].visitCount

\* A variant that leaves the best child as it is.
FixPrincipalVariationSkipped(t, searchPath, parent) ==
    [tree |-> t, changed |-> FALSE]

\* SelfPlayWorker::FixPrincipalVariation: the new tree and whether the flag is raised.
FixPrincipalVariation(t, searchPath, parent) ==
    LET kids == t[parent].children
        best[i \in 0..Len(kids)] ==
            IF i = 0 THEN BestChild(t, parent)
            ELSE IF WorseThan(t, best[i - 1], kids[i]) THEN kids[i] ELSE best[i - 1]
        parentBestChild == best[Len(kids)]
        updateBestChild == \E i \in 1..Len(kids) : WorseThan(t, best[i - 1], kids[i])
        after == IF updateBestChild THEN SetBestChild(t, parent, parentBestChild) ELSE t
        \* the loop over the search path: "signal" or "break"
        walk[i \in 1..Len(searchPath)] ==
            IF i >= Len(searchPath) THEN FALSE
            ELSE IF searchPath[i] = parent THEN TRUE
            ELSE IF BestChild(after, searchPath[i]) # searchPath[i + 1] THEN FALSE
            ELSE walk[i + 1]
    IN [tree |-> after, changed |-> updateBestChild /\ walk[1]]

\* SelfPlayWorker::FailNode
FailNode(s) ==
    /\ tree' = ReleaseVisiting(tree, slot[s].searchPath)
    /\ slot' = [slot EXCEPT ![s].searchPath = <<>>, ![s].pc = "idle", ![s].value = NaN]
    /\ failedNodeCount' = failedNodeCount + 1
    /\ active' = [active EXCEPT ![ThreadOf[s]] = NoSlot]

\* ------------------------------------------------------------------ RunMcts

\* RunMcts, state Working, not finishOnly: snapshot the game and start a search path.
StartSimulation(s) ==
    /\ Runs(s)
    /\ slot[s].pc = "idle"
    /\ started < MaxSims
    /\ started' = started + 1
    /\ active' = [active EXCEPT ![ThreadOf[s]] = s]
    /\ slot' = [slot EXCEPT ![s].searchPath = <<RootNode>>, ![s].pc = "select"]
    /\ tree' = [tree EXCEPT ![RootNode].visitingCount = @ + 1]
    /\ UNCHANGED <<finalized, allWorkItemsCompleted, searchThreads, position, puct, otherVars, nodeCount,
                   failedNodeCount, principalVariationChanged, takes>>

\* The AZ-PUCT scores the network's priors and values may give the children.
AzScores == {0, 1}
ZeroLinear(kids) == [c \in Range(kids) |-> 0]
ExpansionOf(t, kids) == [c \in Range(kids) |-> t[c].expansion]

\* The while loop of RunMcts sees the scratch root Expanded and a child is selected.
SelectChildStep(s) ==
    /\ Runs(s)
    /\ slot[s].pc = "select"
    /\ tree[ScratchRoot(s)].expansion = ExpExpanded
    /\ LET kids == tree[ScratchRoot(s)].children
       IN \E az \in [Range(kids) -> AzScores] :
            LET selected == SelectChild(kids, az, ZeroLinear(kids), tree[ScratchRoot(s)].childCount,
                                        ExpansionOf(tree, kids), 0)
            IN /\ selected.node # NoNode
               /\ slot' = [slot EXCEPT ![s].searchPath = Append(@, selected.node)]
               /\ tree' = [tree EXCEPT ![selected.node].visitingCount = @ + 1]
    /\ UNCHANGED <<active, finalized, allWorkItemsCompleted, searchThreads, position, puct, otherVars, nodeCount,
                   failedNodeCount, principalVariationChanged, started, takes>>

\* ... and no child can be selected: FailNode and return.
SelectChildFail(s) ==
    /\ Runs(s)
    /\ slot[s].pc = "select"
    /\ tree[ScratchRoot(s)].expansion = ExpExpanded
    /\ LET kids == tree[ScratchRoot(s)].children
       IN \E az \in [Range(kids) -> AzScores] :
            SelectChild(kids, az, ZeroLinear(kids), tree[ScratchRoot(s)].childCount,
                        ExpansionOf(tree, kids), 0).node = NoNode
    /\ FailNode(s)
    /\ UNCHANGED <<finalized, allWorkItemsCompleted, searchThreads, position, puct, otherVars, nodeCount,
                   principalVariationChanged, started, takes>>

\* The while loop ends: the scratch root is not (seen as) Expanded.
SelectDone(s) ==
    /\ Runs(s)
    /\ slot[s].pc = "select"
    /\ tree[ScratchRoot(s)].expansion # ExpExpanded
    /\ slot' = [slot EXCEPT ![s].pc = "evaluate",
                            ![s].wasImmediateMate = (tree[ScratchRoot(s)].terminalValue = MateIn(1)),
                            ![s].isSearchRoot = (ScratchRoot(s) = RootNode)]
    /\ UNCHANGED <<tree, active, finalized, allWorkItemsCompleted, searchThreads, position, puct, otherVars, nodeCount,
                   failedNodeCount, principalVariationChanged, started, takes>>

\* ------------------------------------------------------- ExpandAndEvaluate

EvaluateFrame ==
    UNCHANGED <<active, finalized, allWorkItemsCompleted, searchThreads, position, puct, otherVars, nodeCount,
                failedNodeCount, principalVariationChanged, started>>

\* A known-terminal leaf returns its immediate value.
EvaluateImmediate(s) ==
    /\ Runs(s)
    /\ slot[s].pc = "evaluate"
    /\ IsImmediate(tree[ScratchRoot(s)].terminalValue)
    /\ slot' = [slot EXCEPT ![s].pc = "evaluated", ![s].state = Working,
                            ![s].value = ImmediateValue(tree[ScratchRoot(s)].terminalValue)]
    /\ UNCHANGED <<tree, takes>>
    /\ EvaluateFrame

\* No legal moves: checkmate or stalemate, stored on the node.
EvaluateNoMoves(s) ==
    /\ Runs(s)
    /\ slot[s].pc = "evaluate"
    /\ ~IsImmediate(tree[ScratchRoot(s)].terminalValue)
    /\ LegalMoves[ScratchRoot(s)] = <<>>
    /\ LET newTerminalValue == IF ScratchRoot(s) \in checkers THEN MateIn(1) ELSE Draw
       IN /\ tree' = SetTerminalValue(tree, ScratchRoot(s), newTerminalValue)
          /\ slot' = [slot EXCEPT ![s].pc = "evaluated", ![s].value = ImmediateValue(newTerminalValue)]
    /\ UNCHANGED takes
    /\ EvaluateFrame

\* The expansion CAS is lost: NaN, state still Working.
EvaluateLost(s) ==
    /\ Runs(s)
    /\ slot[s].pc = "evaluate"
    /\ ~IsImmediate(tree[ScratchRoot(s)].terminalValue)
    /\ LegalMoves[ScratchRoot(s)] # <<>>
    /\ ~TakeExpansionOwnership(tree, ScratchRoot(s)).ok
    /\ slot' = [slot EXCEPT ![s].pc = "evaluated", ![s].value = NaN]
    /\ UNCHANGED <<tree, takes>>
    /\ EvaluateFrame

\* Ownership taken and the prediction cache hits: FinishExpanding expands at once.
EvaluateCached(s) ==
    /\ Runs(s)
    /\ slot[s].pc = "evaluate"
    /\ ~IsImmediate(tree[ScratchRoot(s)].terminalValue)
    /\ LegalMoves[ScratchRoot(s)] # <<>>
    /\ TakeExpansionOwnership(tree, ScratchRoot(s)).ok
    /\ tree' = Expand(TakeExpansionOwnership(tree, ScratchRoot(s)).tree, ScratchRoot(s))
    /\ takes' = [takes EXCEPT ![ScratchRoot(s)] = @ + 1]
    /\ slot' = [slot EXCEPT ![s].pc = "evaluated", ![s].state = Working, ![s].value = ValueNet,
                            ![s].owned = ScratchRoot(s)]
    /\ EvaluateFrame

\* Ownership taken and no cached prediction: wait for the network.
EvaluateMiss(s) ==
    /\ Runs(s)
    /\ slot[s].pc = "evaluate"
    /\ ~IsImmediate(tree[ScratchRoot(s)].terminalValue)
    /\ LegalMoves[ScratchRoot(s)] # <<>>
    /\ TakeExpansionOwnership(tree, ScratchRoot(s)).ok
    /\ tree' = TakeExpansionOwnership(tree, ScratchRoot(s)).tree
    /\ takes' = [takes EXCEPT ![ScratchRoot(s)] = @ + 1]
    /\ slot' = [slot EXCEPT ![s].pc = "evaluated", ![s].state = WaitingForPrediction, ![s].value = NaN,
                            ![s].owned = ScratchRoot(s)]
    /\ EvaluateFrame

\* RunMcts returns while the slot waits for the network.
ReturnWaiting(s) ==
    /\ Runs(s)
    /\ slot[s].pc = "evaluated"
    /\ slot[s].state = WaitingForPrediction
    /\ slot' = [slot EXCEPT ![s].pc = "waiting"]
    /\ active' = [active EXCEPT ![ThreadOf[s]] = NoSlot]
    /\ UNCHANGED <<tree, finalized, allWorkItemsCompleted, searchThreads, position, puct, otherVars, nodeCount,
                   failedNodeCount, principalVariationChanged, started, takes>>

\* RunMcts gives up after a lost CAS.
FailLost(s) ==
    /\ Runs(s)
    /\ slot[s].pc = "evaluated"
    /\ slot[s].state = Working
    /\ slot[s].value = NaN
    /\ FailNode(s)
    /\ UNCHANGED <<finalized, allWorkItemsCompleted, searchThreads, position, puct, otherVars, nodeCount,
                   principalVariationChanged, started, takes>>

\* PredictBatch returned and RunMcts (finishOnly) resumes ExpandAndEvaluate: FinishExpanding.
FinishExpanding(s) ==
    /\ Runs(s)
    /\ slot[s].pc = "waiting"
    /\ slot[s].state = WaitingForPrediction
    /\ tree' = Expand(tree, ScratchRoot(s))
    /\ slot' = [slot EXCEPT ![s].pc = "evaluated", ![s].state = Working, ![s].value = ValueNet]
    /\ active' = [active EXCEPT ![ThreadOf[s]] = s]
    /\ UNCHANGED <<finalized, allWorkItemsCompleted, searchThreads, position, puct, otherVars, nodeCount,
                   failedNodeCount, principalVariationChanged, started, takes>>

\* ------------------------------------------------------------ Backpropagate

\* A variant that leaves the first node of the path alone.
BackpropagateVisitsBelowFirst(t, path) ==
    [n \in Nodes |-> IF n \in Range(Tail(path))
                     THEN [t[n] EXCEPT !.visitingCount = @ - 1, !.visitCount = @ + 1]
                     ELSE t[n]]

\* Backpropagate / BackpropagateVisitsOnly: every node of the path trades its
\* in-flight visit for a visit.
BackpropagateVisits(t, path) ==
    [n \in Nodes |-> IF n \in Range(path)
                     THEN [t[n] EXCEPT !.visitingCount = @ - 1, !.visitCount = @ + 1]
                     ELSE t[n]]

Backpropagate(s) ==
    /\ Runs(s)
    /\ slot[s].pc = "evaluated"
    /\ slot[s].state = Working
    /\ slot[s].value # NaN
    /\ tree' = BackpropagateVisits(tree, slot[s].searchPath)
    /\ nodeCount' = nodeCount + 1
    /\ LET path == slot[s].searchPath
           proveMate == (~slot[s].wasImmediateMate) /\ IsMateInN(tree[ScratchRoot(s)].terminalValue)
       IN slot' = [slot EXCEPT
              ![s].pc = IF Len(path) < 2 THEN "publish" ELSE IF proveMate THEN "mate" ELSE "pv",
              ![s].index = IF proveMate THEN Len(path) - 1 ELSE 1,
              ![s].childIsMate = TRUE,
              ![s].isPrincipalVariation = TRUE]
    /\ UNCHANGED <<active, finalized, allWorkItemsCompleted, searchThreads, position, puct, otherVars,
                   failedNodeCount, principalVariationChanged, started, takes>>

\* BackpropagateMate, one level: the relaxed load of the parent's terminal value.
MateLoad(s) ==
    /\ Runs(s)
    /\ slot[s].pc = "mate"
    /\ slot' = [slot EXCEPT ![s].pc = "mateStore",
                            ![s].loaded = tree[slot[s].searchPath[slot[s].index]].terminalValue]
    /\ UNCHANGED <<tree, active, finalized, allWorkItemsCompleted, searchThreads, position, puct, otherVars, nodeCount,
                   failedNodeCount, principalVariationChanged, started, takes>>

\* What one level of BackpropagateMate does after its load of the parent:
\* [tree, changed (the PV flag is raised), continue (the loop goes on)].
BackpropagateMateLevel(t, searchPath, i, childIsMate, parentTerminalValue) ==
    LET parent == searchPath[i]
    IN IF childIsMate
       THEN LET newMateN == MateN(t[searchPath[i + 1]].terminalValue)
            IN IF (~IsOpponentMateInN(parentTerminalValue)) \/ (newMateN < OpponentMateN(parentTerminalValue))
               THEN LET set == SetTerminalValue(t, parent, OpponentMateIn(newMateN))
                    IN IF i - 1 >= 1
                       THEN LET fixed == FixPrincipalVariation(set, searchPath, searchPath[i - 1])
                            IN [tree |-> fixed.tree, changed |-> fixed.changed, continue |-> TRUE]
                       ELSE [tree |-> set, changed |-> FALSE, continue |-> TRUE]
               ELSE [tree |-> t, changed |-> FALSE, continue |-> FALSE]
       ELSE LET kids == t[parent].children
                longest[k \in 0..Len(kids)] ==
                    IF k = 0 THEN -128 ELSE Max(longest[k - 1], OpponentMateN(t[kids[k]].terminalValue))
            IN IF \E k \in 1..Len(kids) : OpponentMateN(t[kids[k]].terminalValue) <= 0
               THEN [tree |-> t, changed |-> FALSE, continue |-> FALSE]
               ELSE [tree |-> SetTerminalValue(t, parent, MateIn(longest[Len(kids)] + 1)),
                     changed |-> FALSE, continue |-> TRUE]

MateStore(s) ==
    /\ Runs(s)
    /\ slot[s].pc = "mateStore"
    /\ LET level == BackpropagateMateLevel(tree, slot[s].searchPath, slot[s].index,
                                           slot[s].childIsMate, slot[s].loaded)
           more == level.continue /\ slot[s].index - 1 >= 1
       IN /\ tree' = level.tree
          /\ principalVariationChanged' = (principalVariationChanged \/ level.changed)
          /\ slot' = [slot EXCEPT ![s].pc = IF more THEN "mate" ELSE "pv",
                                  ![s].index = IF more THEN @ - 1 ELSE 1,
                                  ![s].childIsMate = ~@,
                                  ![s].loaded = NonTerminal]
    /\ UNCHANGED <<active, finalized, allWorkItemsCompleted, searchThreads, position, puct, otherVars, nodeCount,
                   failedNodeCount, started, takes>>

\* UpdatePrincipalVariation, one level whose child is not better than the best child.
PvKeep(s) ==
    /\ Runs(s)
    /\ slot[s].pc = "pv"
    /\ LET path == slot[s].searchPath
           i == slot[s].index
       IN /\ ~WorseThan(tree, BestChild(tree, path[i]), path[i + 1])
          /\ slot' = [slot EXCEPT
                 ![s].isPrincipalVariation = @ /\ (BestChild(tree, path[i]) = path[i + 1]),
                 ![s].index = IF i + 1 >= Len(path) THEN 0 ELSE i + 1,
                 ![s].pc = IF i + 1 >= Len(path) THEN "publish" ELSE "pv"]
    /\ UNCHANGED <<tree, active, finalized, allWorkItemsCompleted, searchThreads, position, puct, otherVars, nodeCount,
                   failedNodeCount, principalVariationChanged, started, takes>>

\* ... whose child is better: WorseThan returned true, the store is next.
PvCompare(s) ==
    /\ Runs(s)
    /\ slot[s].pc = "pv"
    /\ WorseThan(tree, BestChild(tree, slot[s].searchPath[slot[s].index]),
                 slot[s].searchPath[slot[s].index + 1])
    /\ slot' = [slot EXCEPT ![s].pc = "pvStore"]
    /\ UNCHANGED <<tree, active, finalized, allWorkItemsCompleted, searchThreads, position, puct, otherVars, nodeCount,
                   failedNodeCount, principalVariationChanged, started, takes>>

PvStore(s) ==
    /\ Runs(s)
    /\ slot[s].pc = "pvStore"
    /\ LET path == slot[s].searchPath
           i == slot[s].index
       IN /\ tree' = SetBestChild(tree, path[i], path[i + 1])
          /\ principalVariationChanged' = (principalVariationChanged \/ slot[s].isPrincipalVariation)
          /\ slot' = [slot EXCEPT
                 ![s].index = IF i + 1 >= Len(path) THEN 0 ELSE i + 1,
                 ![s].pc = IF i + 1 >= Len(path) THEN "publish" ELSE "pv"]
    /\ UNCHANGED <<active, finalized, allWorkItemsCompleted, searchThreads, position, puct, otherVars, nodeCount,
                   failedNodeCount, started, takes>>

\* A variant that clears the root's visits.
StoreRootVisitsNone(t) == [t EXCEPT ![RootNode].visitCount = 0]

\* The leaf was the search root: game.Root()->visitCount.store(1).
StoreRootVisits(t) == [t EXCEPT ![RootNode].visitCount = 1]

\* The end of the simulation: the search-root fix, searchPath.clear() and the
\* release-store of Expanded on a leaf that now has children. The for loop of
\* RunMcts then starts the next simulation (StartSimulation), or the call has
\* returned and the thread runs another slot.
Publish(s) ==
    /\ Runs(s)
    /\ slot[s].pc = "publish"
    /\ LET leaf == ScratchRoot(s)
           fixed == IF slot[s].isSearchRoot THEN StoreRootVisits(tree) ELSE tree
       IN /\ tree' = IF IsExpanded(fixed, leaf) THEN [fixed EXCEPT ![leaf].expansion = ExpExpanded] ELSE fixed
          /\ takes' = IF IsExpanded(fixed, leaf) /\ tree[leaf].expansion = ExpExpanding
                      THEN [takes EXCEPT ![leaf] = 0] ELSE takes
    /\ slot' = [slot EXCEPT ![s] = NewSlot]
    /\ active' = [active EXCEPT ![ThreadOf[s]] = NoSlot]
    /\ UNCHANGED <<finalized, allWorkItemsCompleted, searchThreads, position, puct, otherVars, nodeCount,
                   failedNodeCount, principalVariationChanged, started>>

\* --------------------------------------------------------- search controller

\* WorkCoordinator::OnWorkItemCompleted: a stop command or a time-control rule.
Stop ==
    /\ ~allWorkItemsCompleted
    /\ allWorkItemsCompleted' = TRUE
    /\ UNCHANGED <<tree, slot, active, finalized, searchThreads, position, puct, otherVars, nodeCount,
                   failedNodeCount, principalVariationChanged, started, takes>>

\* SelfPlayWorker::FinalizeMcts, run by a thread that saw the stop between two SearchPlay calls.
InFlight(t) == {n \in Nodes : \E s \in SlotsOf(t) : n \in Range(slot[s].searchPath)}
InFlightCount(t, n) == Cardinality({s \in SlotsOf(t) : n \in Range(slot[s].searchPath)})

\* A variant that resets ownership but leaves the in-flight counts.
FinalizedTreeKeepingVisiting(t, thread) ==
    [n \in Nodes |->
        IF n \in InFlight(thread)
        THEN [t[n] EXCEPT !.expansion = IF @ = ExpExpanding THEN ExpNone ELSE @]
        ELSE t[n]]

FinalizedTree(t, thread) ==
    [n \in Nodes |->
        IF n \in InFlight(thread)
        THEN [t[n] EXCEPT !.visitingCount = @ - InFlightCount(thread, n),
                          !.expansion = IF @ = ExpExpanding THEN ExpNone ELSE @]
        ELSE t[n]]

FinalizeMcts(t) ==
    /\ allWorkItemsCompleted
    /\ ~finalized[t]
    /\ ThreadRuns(t)
    /\ active[t] = NoSlot
    /\ tree' = FinalizedTree(tree, t)
    /\ takes' = [n \in Nodes |-> IF n \in InFlight(t) /\ tree[n].expansion = ExpExpanding THEN 0 ELSE takes[n]]
    /\ slot' = [s \in Slots |-> IF ThreadOf[s] = t
                                THEN [slot[s] EXCEPT !.searchPath = <<>>, !.owned = NoNode]
                                ELSE slot[s]]
    /\ finalized' = [finalized EXCEPT ![t] = TRUE]
    /\ UNCHANGED <<active, allWorkItemsCompleted, searchThreads, position, puct, otherVars, nodeCount,
                   failedNodeCount, principalVariationChanged, started>>

\* The next "go": every thread runs SearchInitialize (ClearGame on every slot).
SearchInitialize ==
    /\ \A t \in Threads : ThreadRuns(t) => finalized[t]
    /\ started < MaxSims
    /\ slot' = [s \in Slots |-> NewSlot]
    /\ finalized' = [t \in Threads |-> FALSE]
    /\ allWorkItemsCompleted' = FALSE
    /\ UNCHANGED <<tree, active, searchThreads, position, puct, otherVars, nodeCount,
                   failedNodeCount, principalVariationChanged, started, takes>>

SlotStep(s) ==
    \/ StartSimulation(s)
    \/ SelectChildStep(s)
    \/ SelectChildFail(s)
    \/ SelectDone(s)
    \/ EvaluateImmediate(s)
    \/ EvaluateNoMoves(s)
    \/ EvaluateLost(s)
    \/ EvaluateCached(s)
    \/ EvaluateMiss(s)
    \/ ReturnWaiting(s)
    \/ FailLost(s)
    \/ FinishExpanding(s)
    \/ Backpropagate(s)
    \/ MateLoad(s)
    \/ MateStore(s)
    \/ PvKeep(s)
    \/ PvCompare(s)
    \/ PvStore(s)
    \/ Publish(s)

Next ==
    \/ \E s \in Slots : SlotStep(s)
    \/ Stop
    \/ \E t \in Threads : FinalizeMcts(t)
    \/ SearchInitialize

Spec == Init /\ [][Next]_vars

\* ------------------------------------------------------------- properties

Leaf(s) == slot[s].searchPath[Len(slot[s].searchPath)]

\* C1: for any node, None -> Expanding is taken at most once until the node
\* leaves Expanding; Expanding -> None happens only in a FinalizeMcts step; and a
\* slot whose ExpandAndEvaluate finds the node already owned gets NaN, stays
\* Working and changes nothing in the tree.
C1_Step ==
    /\ \A n \in Nodes : takes'[n] <= 1
    /\ \A n \in Nodes :
         (tree[n].expansion = ExpNone /\ tree'[n].expansion = ExpExpanding) => takes[n] = 0
    /\ \A n \in Nodes :
         (tree[n].expansion = ExpExpanding /\ tree'[n].expansion = ExpNone)
            => \E t \in Threads : ~finalized[t] /\ finalized'[t]
    /\ \A s \in Slots :
         ( /\ slot[s].pc = "evaluate"
           /\ slot'[s].pc = "evaluated"
           /\ tree[Leaf(s)].expansion # ExpNone
           /\ ~IsImmediate(tree[Leaf(s)].terminalValue)
           /\ LegalMoves[Leaf(s)] # <<>> )
            => (slot'[s].value = NaN /\ slot'[s].state = Working /\ tree' = tree)
C1_ExpansionOwnershipOnce == [][C1_Step]_vars

\* A slot has just lost the CAS on a node another slot took once and still holds.
C1_Witness ==
    \E s \in Slots :
        /\ slot[s].pc = "evaluated"
        /\ slot[s].value = NaN
        /\ slot[s].state = Working
        /\ tree[Leaf(s)].expansion = ExpExpanding
        /\ takes[Leaf(s)] = 1
        /\ \E o \in Slots \ {s} : slot[o].owned = Leaf(s)

\* C2: at most one slot owns a node's expansion; a node's children and
\* childCount change only in a step of the slot that owns it; a node read as
\* Expanded has its child array (children non-null, childCount > 0).
Owners(n) == {s \in Slots : slot[s].owned = n}

C2_Step ==
    /\ \A n \in Nodes : Cardinality(Owners(n))' <= 1
    /\ \A n \in Nodes :
         (tree'[n].children # tree[n].children \/ tree'[n].childCount # tree[n].childCount)
            => \E s \in Slots : /\ slot'[s].owned = n
                                /\ slot'[s].pc = "evaluated"
                                /\ slot[s].pc \in {"evaluate", "waiting"}
                                /\ tree'[n].expansion = ExpExpanding
    /\ \A n \in Nodes :
         tree'[n].expansion = ExpExpanded => (tree'[n].children # <<>> /\ tree'[n].childCount > 0)
C2_SingleOwnerWrites == [][C2_Step]_vars

\* One slot owns a node it has filled with children and not yet published while
\* another slot is inside a simulation of its own.
C2_Witness ==
    \E s \in Slots : \E o \in Slots \ {s} :
        /\ slot[s].owned # NoNode
        /\ tree[slot[s].owned].expansion = ExpExpanding
        /\ tree[slot[s].owned].childCount > 0
        /\ slot[o].searchPath # <<>>
        /\ \E n \in Nodes : tree[n].expansion = ExpExpanded

\* C3: once the search is stopped and every running thread has run
\* FinalizeMcts, every node has visitingCount = 0 and none is Expanding.
SearchFinished ==
    allWorkItemsCompleted /\ \A t \in Threads : ThreadRuns(t) => finalized[t]

C3_FinalizedTreeConsistent ==
    SearchFinished => \A n \in Nodes : tree[n].visitingCount = 0 /\ tree[n].expansion # ExpExpanding

\* A thread is about to finalize over a waiting simulation, after a failed and a
\* completed one.
C3_Witness ==
    /\ SearchFinished
    /\ failedNodeCount > 0
    /\ nodeCount > 0
    /\ \E s \in Slots : slot[s].pc = "waiting" /\ slot[s].state = WaitingForPrediction

\* The sum of the children's visit counts.
SumChildVisits(t, n) ==
    LET kids == t[n].children
        sum[i \in 0..Len(kids)] == IF i = 0 THEN 0 ELSE sum[i - 1] + t[kids[i]].visitCount
    IN sum[Len(kids)]

C5_Step ==
    \A n \in Nodes :
        /\ (IsMateInN(tree[n].terminalValue) /\ IsMateInN(tree'[n].terminalValue))
              => MateN(tree'[n].terminalValue) <= MateN(tree[n].terminalValue)
        /\ (IsOpponentMateInN(tree[n].terminalValue) /\ IsOpponentMateInN(tree'[n].terminalValue))
              => OpponentMateN(tree'[n].terminalValue) <= OpponentMateN(tree[n].terminalValue)
C5_MateMonotone == [][C5_Step]_vars

\* C6 as stated: in every reachable state, no child of the same tablebase rank
\* and mate distance has more visits than the best child.
SameRankAndMate(t, a, b) ==
    /\ TablebaseRank(t, a) = TablebaseRank(t, b)
    /\ EitherMateN(t[a].terminalValue) = EitherMateN(t[b].terminalValue)

BestChildHasMostVisits(t) ==
    \A n \in Nodes :
        BestChild(t, n) # NoNode =>
            \A c \in Range(t[n].children) :
                SameRankAndMate(t, BestChild(t, n), c) => t[c].visitCount <= t[BestChild(t, n)].visitCount

C6_BestChildAlways == BestChildHasMostVisits(tree)

\* No slot is between its Backpropagate and the end of its UpdatePrincipalVariation.
BetweenUpdates == \A s \in Slots : slot[s].pc \notin {"mate", "mateStore", "pv", "pvStore"}

\* C6 amended: with one search thread, whenever no simulation is between its
\* Backpropagate and the end of its UpdatePrincipalVariation, no child of the same
\* tablebase rank and mate distance has more visits than the best child.
C6_BestChildSingleThread ==
    (searchThreads = 1 /\ BetweenUpdates) => BestChildHasMostVisits(tree)

\* A single-threaded search replaced a best child by a sibling that overtook it.
C6_Witness ==
    /\ searchThreads = 1
    /\ BetweenUpdates
    /\ \E n \in Nodes :
         /\ tree[n].bestIndex # NoBest
         /\ tree[n].bestIndex # 0
         /\ tree[tree[n].children[1]].visitCount > 0
         /\ tree[BestChild(tree, n)].visitCount > tree[tree[n].children[1]].visitCount

\* SelfPlayWorker::ValidatePrincipalVariation: what its assertions require.
ValidatePrincipalVariation(t) ==
    LET root[i \in 0..Cardinality(Nodes)] ==
            IF i = 0 THEN RootNode
            ELSE IF root[i - 1] = NoNode THEN NoNode ELSE BestChild(t, root[i - 1])
    IN \A i \in 0..Cardinality(Nodes) :
          root[i] # NoNode =>
              \A c \in Range(t[root[i]].children) :
                  t[c].visitCount > 0 => ~WorseThan(t, BestChild(t, root[i]), c)

\* C7: with one search thread, after a simulation's Backpropagate,
\* BackpropagateMate and UpdatePrincipalVariation, along root -> BestChild -> ...
\* no visited child is better than the best child.
C7_PrincipalVariationValid ==
    searchThreads = 1 =>
        \A s \in Slots : slot[s].pc = "publish" => ValidatePrincipalVariation(tree)

\* A simulation three plies deep has just proved a mate and updated a principal
\* variation that leads through a node with a visited sibling.
C7_Witness ==
    /\ searchThreads = 1
    /\ \E s \in Slots :
         /\ slot[s].pc = "publish"
         /\ Len(slot[s].searchPath) >= 4
         /\ IsOpponentMateInN(tree[slot[s].searchPath[3]].terminalValue)
         /\ BestChild(tree, RootNode) # NoNode
         /\ \E c \in Range(tree[RootNode].children) :
               c # BestChild(tree, RootNode) /\ tree[c].visitCount > 0

\* C8 as stated: for every node, children # null, childCount > 0 and
\* expansion # None are equivalent.
C8_ThreeWayEquivalence ==
    \A n \in Nodes :
        /\ (tree[n].children # <<>>) <=> (tree[n].childCount > 0)
        /\ (tree[n].childCount > 0) <=> (tree[n].expansion # ExpNone)

\* C8 amended: children # null iff childCount > 0; a node with children is not
\* None; an Expanded node has children. (An Expanding node may have none yet.)
C8_ChildrenAndExpansion ==
    \A n \in Nodes :
        /\ (tree[n].children # <<>>) <=> (tree[n].childCount > 0)
        /\ (tree[n].children # <<>>) => (tree[n].expansion # ExpNone)
        /\ (tree[n].expansion = ExpExpanded) => (tree[n].children # <<>>)

\* One node is owned by a waiting slot and has no children yet, another is
\* published with its children, a third is untouched.
C8_Witness ==
    /\ \E n \in Nodes : tree[n].expansion = ExpExpanding /\ tree[n].children = <<>>
    /\ \E n \in Nodes : tree[n].expansion = ExpExpanded /\ tree[n].childCount > 0
    /\ \E n \in Nodes : tree[n].expansion = ExpNone /\ tree[n].childCount = 0

\* The number of slots whose search path holds node n and is not yet backpropagated.
Visiting(sl, n) ==
    Cardinality({s \in Slots : /\ n \in Range(sl[s].searchPath)
                               /\ sl[s].pc \in {"select", "evaluate", "evaluated", "waiting"}})

\* A step of slot s aborts its simulation.
Aborts(s) ==
    /\ slot[s].searchPath # <<>>
    /\ \/ /\ slot[s].pc = "select"
          /\ tree[Leaf(s)].expansion = ExpExpanded
          /\ \A c \in Range(tree[Leaf(s)].children) : tree[c].expansion = ExpExpanding
       \/ /\ slot[s].pc = "evaluated"
          /\ slot[s].state = Working
          /\ slot[s].value = NaN
    /\ slot'[s] # slot[s]

\* C9: when SelectChild returns no child or the expansion CAS was lost, the
\* step that follows is FailNode's: failedNodeCount + 1, visitingCount - 1 on
\* exactly the nodes of the path (so that every visitingCount is again the
\* number of paths in flight through the node), the path cleared, nothing else
\* of any node and no nodeCount changed, and the slot Working and idle.
C9_Step ==
    \A s \in Slots :
        Aborts(s) =>
            /\ failedNodeCount' = failedNodeCount + 1
            /\ nodeCount' = nodeCount
            /\ \A n \in Nodes :
                 /\ tree'[n] = [tree[n] EXCEPT
                        !.visitingCount = IF n \in Range(slot[s].searchPath) THEN @ - 1 ELSE @]
                 /\ tree'[n].visitingCount = Visiting(slot', n)
            /\ slot'[s].searchPath = <<>>
            /\ slot'[s].state = Working
            /\ slot'[s].pc = "idle"
            /\ \A o \in Slots \ {s} : slot'[o] = slot[o]
C9_FailNodeRecovers == [][C9_Step]_vars

\* Both kinds of abort have happened and the slot that failed last is idle
\* again, while another simulation is still in flight.
C9_Witness ==
    /\ failedNodeCount >= 2
    /\ \E s \in Slots : slot[s].pc = "idle" /\ slot[s].state = Working /\ slot[s].searchPath = <<>>
    /\ \E o \in Slots : slot[o].searchPath # <<>>
    /\ \E n \in Nodes : tree[n].visitingCount = 1

\* ------------------------------------------- PuctContext::SelectChild alone

\* The largest AZ-PUCT score drawn for a child.
MaxScore == 2

\* The children of the parent, the linear exploration terms a child may get and
\* the values the constructor may give _eliminationTopCount:
\* min(childCount, rootVisitAdjusted) with rootVisitAdjusted >= 2.
PuctChildren == {2, 3, 7}
LinearTerms == {1, 3}
TopCounts == {Cardinality(PuctChildren) - 1, Cardinality(PuctChildren)}
\* The values drawn for Config::Network.SelfPlay.BackpropagationPuctThreshold.
Thresholds == {0, 1}
Orders == {o \in [1..Cardinality(PuctChildren) -> PuctChildren] :
              \A i, j \in 1..Cardinality(PuctChildren) : o[i] = o[j] => i = j}

InitPuct ==
    /\ tree = [n \in Nodes |-> NewNode]
    /\ slot = [s \in Slots |-> NewSlot]
    /\ active = [t \in Threads |-> NoSlot]
    /\ finalized = [t \in Threads |-> FALSE]
    /\ allWorkItemsCompleted = FALSE
    /\ searchThreads = 1
    /\ position = [moves |-> MovesA, checkers |-> {5}]
    /\ puct = NoSelection
    /\ nodeCount = 0
    /\ failedNodeCount = 0
    /\ principalVariationChanged = FALSE
    /\ started = 0
    /\ takes = [n \in Nodes |-> 0]
    /\ OtherIdle

PuctFrame ==
    UNCHANGED <<tree, slot, active, finalized, allWorkItemsCompleted, searchThreads, position,
                nodeCount, failedNodeCount, principalVariationChanged, started, takes, otherVars>>

\* The first loop of SelectChild and nth_element: the children are scored and
\* reordered; every order nth_element could leave is drawn.
PuctScore ==
    /\ puct.phase = "none"
    /\ \E az \in [PuctChildren -> 0..MaxScore], linear \in [PuctChildren -> LinearTerms],
          topCount \in TopCounts, order \in Orders,
          expansionOf \in [PuctChildren -> {ExpNone, ExpExpanding, ExpExpanded}],
          threshold \in Thresholds :
          /\ puct' = [phase |-> "scored", scored |-> order, az |-> az, linear |-> linear,
                      topCount |-> topCount, expansionOf |-> expansionOf,
                      threshold |-> threshold, result |-> NoSelection.result]
    /\ PuctFrame

\* The second loop and the return.
PuctSelect ==
    /\ puct.phase = "scored"
    /\ puct' = [puct EXCEPT !.phase = "selected",
                            !.result = SelectChild(puct.scored, puct.az, puct.linear, puct.topCount,
                                                   puct.expansionOf, puct.threshold)]
    /\ PuctFrame

\* The WeightedNode has been consumed; the next call starts afresh.
PuctReturn ==
    /\ puct.phase = "selected"
    /\ puct' = NoSelection
    /\ PuctFrame

NextPuct == PuctScore \/ PuctSelect \/ PuctReturn

SpecPuct == InitPuct /\ [][NextPuct]_vars

\* The SBLE-PUCT score the second loop computes for child c.
ScoreOf(c) ==
    SblePuct(puct.scored, puct.az, puct.linear, puct.topCount, IndexOf(puct.scored, c))

ReadAsExpanding(c) == puct.expansionOf[c] = ExpExpanding

\* C10: SelectChild returns a child not read as Expanding whose SBLE-PUCT score
\* is the maximum among the children not read as Expanding, and returns no
\* child exactly when every child was read as Expanding.
C10_SelectsBestUnblocked ==
    puct.phase = "selected" =>
        /\ puct.result.node # NoNode =>
              /\ puct.result.node \in PuctChildren
              /\ ~ReadAsExpanding(puct.result.node)
              /\ \A c \in PuctChildren :
                    ~ReadAsExpanding(c) => ScoreOf(c) <= ScoreOf(puct.result.node)
        /\ (puct.result.node = NoNode) <=> (\A c \in PuctChildren : ReadAsExpanding(c))
        /\ \A c \in PuctChildren : ReadAsExpanding(c) => c \in puct.result.loads \/ puct.result.node # NoNode

\* The child with the highest score was read as Expanding and a lower-scored
\* child is returned.
C10_Witness ==
    /\ puct.phase = "selected"
    /\ puct.result.node # NoNode
    /\ \E c \in PuctChildren : ReadAsExpanding(c) /\ c \in puct.result.loads
                                /\ ScoreOf(c) > ScoreOf(puct.result.node)
    /\ \E c \in PuctChildren \ {puct.result.node} : ~ReadAsExpanding(c)

\* The largest AZ-PUCT score over all the children and whether the chosen
\* child's AZ-PUCT score is within the threshold of it.
MaxAzPuct == SeqMax(puct.az, puct.scored)
WithinThreshold(c) == MaxAzPuct - puct.az[c] <= puct.threshold

\* Child c is the first child, in the order of the second loop, whose SBLE-PUCT
\* score is the maximum over all the children, blocked ones included.
FirstOverallBest(c) ==
    /\ \A d \in PuctChildren : ScoreOf(d) <= ScoreOf(c)
    /\ \A d \in PuctChildren :
          ScoreOf(d) = ScoreOf(c) => IndexOf(puct.scored, c) <= IndexOf(puct.scored, d)

\* C11 as stated: the weight bit returned by SelectChild is 1 if and only if the
\* chosen child was not blocked (not read as Expanding) and the chosen child's
\* AZ-PUCT score is within backpropagationThreshold of the maximum AZ-PUCT score
\* over all children; otherwise it is 0.
C11_WeightOfChosenChild ==
    puct.phase = "selected" =>
        /\ puct.result.weight \in {0, 1}
        /\ (puct.result.weight = 1) <=>
              /\ puct.result.node # NoNode
              /\ ~ReadAsExpanding(puct.result.node)
              /\ WithinThreshold(puct.result.node)

\* C11 amended: the weight bit is 1 if and only if the first child to reach the
\* maximum SBLE-PUCT score over all children, blocked ones included, was not
\* read as Expanding (it is then the chosen child) and the chosen child's
\* AZ-PUCT score is within the threshold of the maximum AZ-PUCT score over all
\* children; otherwise it is 0, in particular whenever a blocked child outscored
\* the chosen one.
C11_WeightOfBestChild ==
    puct.phase = "selected" =>
        /\ puct.result.weight \in {0, 1}
        /\ (puct.result.weight = 1) <=>
              /\ puct.result.node # NoNode
              /\ FirstOverallBest(puct.result.node)
              /\ WithinThreshold(puct.result.node)
        /\ (\E c \in PuctChildren : ReadAsExpanding(c) /\ FirstOverallBest(c))
              => puct.result.weight = 0

\* A child not read as Expanding is chosen and its AZ-PUCT score is within the
\* threshold, yet the weight is 0 because a blocked child had the higher
\* SBLE-PUCT score.
C11_Witness ==
    /\ puct.phase = "selected"
    /\ puct.result.node # NoNode
    /\ ~ReadAsExpanding(puct.result.node)
    /\ WithinThreshold(puct.result.node)
    /\ puct.result.weight = 0
    /\ \E c \in PuctChildren : ReadAsExpanding(c) /\ ScoreOf(c) > ScoreOf(puct.result.node)

\* ------------------------------------------- the prediction cache alone

\* The number of calls made on the cache.
MaxOps == 4

searchVars == <<tree, slot, active, finalized, allWorkItemsCompleted, searchThreads, position,
                puct, nodeCount, failedNodeCount, principalVariationChanged, started, takes>>

SearchIdle ==
    /\ tree = [n \in Nodes |-> NewNode]
    /\ slot = [s \in Slots |-> NewSlot]
    /\ active = [t \in Threads |-> NoSlot]
    /\ finalized = [t \in Threads |-> FALSE]
    /\ allWorkItemsCompleted = FALSE
    /\ searchThreads = 1
    /\ position = [moves |-> MovesA, checkers |-> {5}]
    /\ puct = NoSelection
    /\ nodeCount = 0
    /\ failedNodeCount = 0
    /\ principalVariationChanged = FALSE
    /\ started = 0
    /\ takes = [n \in Nodes |-> 0]

\* The cache is not allocated, or allocated as two tables whose memory holds
\* zeros or garbage in the fields Clear does not write.
InitCache ==
    /\ SearchIdle
    /\ \E fill \in Fills :
          /\ chunks = [a \in Addresses |-> FreshChunk(fill)]
          /\ tables \in (IF fill = ZeroFill THEN {NoTables, TwoTables} ELSE {TwoTables})
    /\ pending = {}
    /\ metrics = NoMetrics
    /\ history = <<>>
    /\ RaceIdle
    /\ alloc = AllocatedAs(tables)
    /\ search = NoSearch /\ ExtraIdle /\ UnitIdle

\* One call in the history: its arguments, its results, the entry it read or
\* wrote, and (for the latest call only) the chunk as it was before the call.
Call(op, key, moveCount, value, priors, hit, chunk, index, before) ==
    [op |-> op, key |-> key, moveCount |-> moveCount, value |-> value, priors |-> priors,
     hit |-> hit, chunk |-> chunk, index |-> index, before |-> before]

Record(call) ==
    Append([n \in 1..Len(history) |-> [history[n] EXCEPT !.before = <<>>]], call)

\* PredictionCache::TryGetPrediction
TryGetPrediction ==
    /\ Len(history) < MaxOps
    /\ \E key \in Keys, moveCount \in MoveCounts :
          IF tables.count = 0
          THEN /\ history' = Record(Call("TryGetPrediction", key, moveCount, NoValue, <<>>,
                                         FALSE, NoChunk, 0, <<>>))
               /\ UNCHANGED <<chunks, pending, metrics>>
          ELSE LET address == ChunkOf(key, tables)
                   got == ChunkTryGet(chunks[address], key, moveCount)
               IN /\ chunks' = [chunks EXCEPT ![address] = got.chunk]
                  /\ metrics' = [metrics EXCEPT !.probeCount = @ + 1,
                                                !.hitCount = IF got.hit THEN @ + 1 ELSE @]
                  /\ pending' = IF got.hit THEN pending
                                ELSE pending \cup {[chunk |-> address, key |-> key,
                                                    moveCount |-> moveCount]}
                  /\ history' = Record(Call("TryGetPrediction", key, moveCount, got.value,
                                            got.priors, got.hit,
                                            IF got.hit THEN NoChunk ELSE address,
                                            got.index, chunks[address]))
    /\ UNCHANGED tables
    /\ UNCHANGED <<raceVars, nonCacheVars>>
    /\ UNCHANGED searchVars

\* cacheStore->Put, on a chunk that a missed probe returned.
Put ==
    /\ Len(history) < MaxOps
    /\ \E store \in pending, value \in Values :
          \E priors \in Distributions(store.moveCount) :
             LET put == ChunkPut(chunks[store.chunk], store.key, value, store.moveCount, priors)
             IN /\ chunks' = [chunks EXCEPT ![store.chunk] = put.chunk]
                /\ metrics' = IF put.evicted
                              THEN [metrics EXCEPT !.evictionCount = @ + 1]
                              ELSE [metrics EXCEPT !.entryCount = @ + 1]
                /\ pending' = pending \ {store}
                /\ history' = Record(Call("Put", store.key, store.moveCount, value, priors,
                                          FALSE, store.chunk, put.index, chunks[store.chunk]))
    /\ UNCHANGED tables
    /\ UNCHANGED <<raceVars, nonCacheVars>>
    /\ UNCHANGED searchVars

\* PredictionCache::Clear
Clear ==
    /\ Len(history) < MaxOps
    /\ tables.count > 0
    /\ chunks' = [a \in Addresses |-> ChunkClear(chunks[a])]
    /\ metrics' = NoMetrics
    /\ history' = Record(Call("Clear", ZeroKey, 0, NoValue, <<>>, FALSE, NoChunk, 0, <<>>))
    /\ UNCHANGED <<tables, pending>>
    /\ UNCHANGED <<raceVars, nonCacheVars>>
    /\ UNCHANGED searchVars

\* One store of a racing writer: the second prior of an entry that was put is
\* overwritten with zero.
Splice ==
    /\ Len(history) < MaxOps
    /\ \E address \in Addresses, i \in 1..EntryCount :
          /\ chunks[address][i].moveCount > 0
          /\ chunks[address][i].whole
          /\ chunks' = [chunks EXCEPT ![address][i].policyPriors[2] = 0,
                                      ![address][i].whole = FALSE]
          /\ history' = Record(Call("Splice", chunks[address][i].key, chunks[address][i].moveCount,
                                    NoValue, <<>>, FALSE, address, i, chunks[address]))
    /\ UNCHANGED <<tables, pending, metrics>>
    /\ UNCHANGED <<raceVars, nonCacheVars>>
    /\ UNCHANGED searchVars

NextCache == TryGetPrediction \/ Put \/ Clear \/ Splice

SpecCache == InitCache /\ [][NextCache]_vars

\* The latest call and the one before it.
LastCall == history[Len(history)]
PreviousCall == history[Len(history) - 1]

\* A Put of (key, value, moveCount, priors) was immediately followed by a probe
\* of the same key and move count.
ProbedRightAfterPut ==
    /\ Len(history) >= 2
    /\ PreviousCall.op = "Put"
    /\ LastCall.op = "TryGetPrediction"
    /\ LastCall.key = PreviousCall.key
    /\ LastCall.moveCount = PreviousCall.moveCount

\* The probability returned for a move equals the one that was put, up to one
\* quantum: |returned - weight/total| <= 1/65535.
EqualUpToQuantisation(returned, weight, total) ==
    LET difference == returned.num * total - weight * returned.den
    IN (-total) <= difference /\ difference <= total

\* C12: in a single-threaded sequence of calls, when a probe of key K with move
\* count m missed, its chunk received Put(K, v, m, priors) with priors a
\* probability distribution, and TryGetPrediction(K, m) follows immediately,
\* that probe hits and returns v and the m priors that were put, equal up to
\* quantisation.
C12_PutThenProbeHits ==
    ProbedRightAfterPut =>
        /\ LastCall.hit
        /\ LastCall.value = PreviousCall.value
        /\ Len(LastCall.priors) = PreviousCall.moveCount
        /\ \A m \in 1..PreviousCall.moveCount :
              EqualUpToQuantisation(LastCall.priors[m], PreviousCall.priors[m],
                                    SumTo(PreviousCall.priors, PreviousCall.moveCount))

\* A prediction for the largest move count is put into memory that held
\* garbage and is returned by the probe that follows.
C12_Witness ==
    /\ ProbedRightAfterPut
    /\ LastCall.hit
    /\ LastCall.moveCount = MaxMoveCount
    /\ LastCall.key # ZeroKey
    /\ LastCall.value \in Values
    /\ \E a \in Addresses : chunks[a][EntryCount].policyPriors = GarbageFill

\* Call n of the history is a probe that hit although no Put of its key was
\* made since the latest Clear (or since allocation).
HitWithoutPut(n) ==
    /\ history[n].op = "TryGetPrediction"
    /\ history[n].hit
    /\ ~\E p \in 1..(n - 1) :
          /\ history[p].op = "Put"
          /\ history[p].key = history[n].key
          /\ \A c \in (p + 1)..(n - 1) : history[c].op # "Clear"

\* C13: in a single-threaded sequence of Allocate, Put, TryGetPrediction and
\* Clear, a probe of a key returns a hit only if a Put with that key happened
\* after the most recent Clear (or allocation); so a key that was never put
\* misses, and after Clear every key misses until the next Put.
C13_HitOnlyAfterPut ==
    \A n \in 1..Len(history) : ~HitWithoutPut(n)

\* The same for probes of keys other than zero.
C13_NonZeroHitOnlyAfterPut ==
    \A n \in 1..Len(history) : history[n].key # ZeroKey => ~HitWithoutPut(n)

\* The failing case on zero-filled memory: a probe of key zero hits after Clear
\* and returns the prediction that was put under another key.
C13_ZeroKeyHitAfterClear ==
    /\ Len(history) >= 2
    /\ PreviousCall.op = "Clear"
    /\ LastCall.op = "TryGetPrediction"
    /\ LastCall.key = ZeroKey
    /\ LastCall.hit
    /\ LastCall.value \in Values
    /\ chunks[ChunkOf(ZeroKey, tables)][EntryCount].policyPriors = ZeroFill

\* The latest call is a probe of an allocated cache.
Probed ==
    /\ Len(history) >= 1
    /\ LastCall.op = "TryGetPrediction"
    /\ tables.count > 0

\* The integer sum of the first moveCount quantised priors of an entry lies
\* within 120 quanta of Q(1.0).
WithinAllowance(entry, moveCount) ==
    LET priorSum == SumTo(entry.policyPriors, moveCount)
    IN /\ priorSum - QuantizeProbabilityNoZero(1, 1) <= 120
       /\ QuantizeProbabilityNoZero(1, 1) - priorSum <= 120

InitRace ==
    /\ SearchIdle
    /\ tables = TwoTables
    /\ chunks = [a \in Addresses |-> FreshChunk(ZeroFill)]
    /\ pending = {}
    /\ metrics = NoMetrics
    /\ history = <<>>
    /\ RaceIdle
    /\ alloc = AllocatedAs(tables)
    /\ search = NoSearch /\ ExtraIdle /\ UnitIdle

RaceFrame == UNCHANGED <<tables, pending, nonCacheVars>> /\ UNCHANGED searchVars

\* The number of probes the racing threads make.
MaxRaceProbes == MaxOps - 1

\* The key, the value and the first priors of an entry were all written by the
\* same Put call.
WrittenByOne(by) ==
    /\ by.key = by.value
    /\ \A m \in 1..RaceMoveCount : by.priors[m] = by.key

\* Thread t stores into entry i of the chunk; the entry is whole when all its
\* fields come from one Put call.
RaceStore(t, stored, by, pc) ==
    LET i == writer[t].oldestIndex
    IN /\ writtenBy' = [writtenBy EXCEPT ![i] = by]
       /\ chunks' = [chunks EXCEPT ![RaceChunk][i] = [stored EXCEPT !.whole = WrittenByOne(by)]]
       /\ writer' = [writer EXCEPT ![t].pc = pc]
       /\ UNCHANGED <<metrics, history>>
       /\ RaceFrame

\* TryGetPrediction by thread t; on a miss the thread goes on to put the
\* prediction of its network into the chunk it was handed.  Only the latest
\* probe is kept in the history.
RaceProbe(t) ==
    /\ writer[t].pc = "idle"
    /\ metrics.probeCount < MaxRaceProbes
    /\ \E key \in RaceKeys :
          LET got == ChunkTryGet(chunks[RaceChunk], key, RaceMoveCount)
          IN /\ chunks' = [chunks EXCEPT ![RaceChunk] = got.chunk]
             /\ metrics' = [metrics EXCEPT !.probeCount = @ + 1,
                                           !.hitCount = IF got.hit THEN @ + 1 ELSE @]
             /\ history' = <<Call("TryGetPrediction", key, RaceMoveCount, got.value,
                                  got.priors, got.hit,
                                  IF got.hit THEN NoChunk ELSE RaceChunk,
                                  got.index, chunks[RaceChunk])>>
             /\ writer' = [writer EXCEPT ![t] =
                              IF got.hit THEN NoWriter
                              ELSE [NoWriter EXCEPT !.pc = "scan", !.key = key,
                                                    !.value = RaceValue[t],
                                                    !.priors = RacePriors[t]]]
    /\ UNCHANGED writtenBy
    /\ RaceFrame

\* Put, lines 94-116: the entry to replace is chosen and the metrics updated.
RacePutScan(t) ==
    /\ writer[t].pc = "scan"
    /\ LET oldestIndex == OldestIndex(chunks[RaceChunk], writer[t].key, 1, 1)
           counted == IF chunks[RaceChunk][oldestIndex].key # ZeroKey
                      THEN [metrics EXCEPT !.evictionCount = @ + 1]
                      ELSE [metrics EXCEPT !.entryCount = @ + 1]
       IN /\ metrics' = counted
          /\ writer' = [writer EXCEPT ![t].pc = "key", ![t].oldestIndex = oldestIndex,
                                      ![t].id = counted.evictionCount + counted.entryCount]
    /\ UNCHANGED <<chunks, history, writtenBy>>
    /\ RaceFrame

\* Put, line 118
RaceStoreKey(t) ==
    /\ writer[t].pc = "key"
    /\ LET i == writer[t].oldestIndex
       IN RaceStore(t, [chunks[RaceChunk][i] EXCEPT !.key = writer[t].key],
                    [writtenBy[i] EXCEPT !.key = writer[t].id], "value")

\* Put, line 119
RaceStoreValue(t) ==
    /\ writer[t].pc = "value"
    /\ LET i == writer[t].oldestIndex
       IN RaceStore(t, [chunks[RaceChunk][i] EXCEPT !.value = writer[t].value],
                    [writtenBy[i] EXCEPT !.value = writer[t].id], "age")

\* Put, line 120
RaceStoreAge(t) ==
    /\ writer[t].pc = "age"
    /\ LET i == writer[t].oldestIndex
       IN RaceStore(t, [chunks[RaceChunk][i] EXCEPT !.age = IntMin], writtenBy[i], "priors")

\* Put, lines 121-124: one prior per step.
RaceStorePrior(t) ==
    /\ writer[t].pc = "priors"
    /\ LET i == writer[t].oldestIndex
           m == writer[t].m + 1
           total == SumTo(writer[t].priors, RaceMoveCount)
       IN /\ writtenBy' = [writtenBy EXCEPT ![i].priors[m] = writer[t].id]
          /\ chunks' = [chunks EXCEPT ![RaceChunk][i] =
                           [@ EXCEPT !.policyPriors[m] =
                                         QuantizeProbabilityNoZero(writer[t].priors[m], total),
                                     !.whole = WrittenByOne(writtenBy'[i])]]
          /\ writer' = [writer EXCEPT ![t].m = m,
                                      ![t].pc = IF m = RaceMoveCount THEN "guard" ELSE "priors"]
    /\ UNCHANGED <<metrics, history>>
    /\ RaceFrame

\* Put, lines 133-136, and the return.
RaceStoreGuard(t) ==
    /\ writer[t].pc = "guard"
    /\ LET i == writer[t].oldestIndex
       IN /\ chunks' = [chunks EXCEPT ![RaceChunk][i] =
                           [@ EXCEPT !.policyPriors = WithGuard(@, RaceMoveCount),
                                     !.moveCount = RaceMoveCount]]
          /\ writer' = [writer EXCEPT ![t] = NoWriter]
    /\ UNCHANGED <<metrics, history, writtenBy>>
    /\ RaceFrame

NextRace ==
    \E t \in Threads :
        \/ RaceProbe(t)
        \/ RacePutScan(t)
        \/ RaceStoreKey(t)
        \/ RaceStoreValue(t)
        \/ RaceStoreAge(t)
        \/ RaceStorePrior(t)
        \/ RaceStoreGuard(t)

SpecRace == InitRace /\ [][NextRace]_vars

\* C15: with several threads putting into and probing the same chunk without
\* locks, a spliced entry (one whose key, value and priors were not all written
\* by a single Put call) is never returned by a probe.
C15_SplicedNeverReturned ==
    (Probed /\ LastCall.hit) => LastCall.before[LastCall.index].whole

\* C15 amended: with several threads putting into and probing the same chunk
\* without locks, a probe never returns an entry whose first move_count priors
\* do not sum to within 120 quanta of Q(1.0): it rejects the entry and leaves
\* its age, like every other age of the chunk, one above what it was, so the
\* entry is not freshened.  A spliced entry whose priors pass the check (the key
\* of one Put with the value and priors of another) is returned as a hit.
C15_ProbeStep ==
    (history' # history) =>
        LET call == history'[1]
            i == call.index
            before == chunks[RaceChunk]
            after == chunks'[RaceChunk]
        IN /\ call.hit => (i # 0 /\ WithinAllowance(before[i], call.moveCount))
           /\ (i # 0 /\ ~WithinAllowance(before[i], call.moveCount)) =>
                 (~call.hit /\ call.chunk = RaceChunk)
           /\ ~call.hit => \A j \in 1..EntryCount : after[j].age = before[j].age + 1
C15_BadSumRejected == [][C15_ProbeStep]_vars

\* A probe has just rejected an entry whose two priors were written by two
\* different Put calls, and the entry was not freshened.
C15_Witness ==
    /\ Probed
    /\ ~LastCall.hit
    /\ LastCall.index # 0
    /\ ~LastCall.before[LastCall.index].whole
    /\ ~WithinAllowance(LastCall.before[LastCall.index], LastCall.moveCount)
    /\ writtenBy[LastCall.index].priors[1] # writtenBy[LastCall.index].priors[2]
    /\ writtenBy[LastCall.index].priors[1] # 0
    /\ writtenBy[LastCall.index].priors[2] # 0
    /\ chunks[RaceChunk][LastCall.index].age = LastCall.before[LastCall.index].age + 1

\* The failing case after both Put calls have returned: the entry holds the key
\* of one call with the value and the priors of the other, and a probe of that
\* key returns it.
C15_KeyOfOneValueOfOther ==
    /\ Probed
    /\ LastCall.hit
    /\ \A t \in Threads : writer[t].pc = "idle"
    /\ LET by == writtenBy[LastCall.index]
       IN /\ by.key # by.value
          /\ \A m \in 1..RaceMoveCount : by.priors[m] = by.value
    /\ metrics.entryCount + metrics.evictionCount = 2

\* ------------------------------------------ a stored prediction is spliced

\* The cache after TryGetPrediction(KeyA, 2) missed and the prediction was put:
\* the calls that follow are those of SpecCache.
StoredChunk ==
    ChunkPut(ChunkTryGet(FreshChunk(ZeroFill), KeyA, RaceMoveCount).chunk,
             KeyA, RaceValue["A"], RaceMoveCount, Uniform(RaceMoveCount)).chunk

InitSplice ==
    /\ SearchIdle
    /\ tables = TwoTables
    /\ chunks = [a \in Addresses |->
                    IF a = ChunkOf(KeyA, TwoTables) THEN StoredChunk ELSE FreshChunk(ZeroFill)]
    /\ pending = {}
    /\ metrics = [NoMetrics EXCEPT !.probeCount = 1, !.entryCount = 1]
    /\ history = <<>>
    /\ RaceIdle
    /\ alloc = AllocatedAs(tables)
    /\ search = NoSearch /\ ExtraIdle /\ UnitIdle

SpecSplice == InitSplice /\ [][NextCache]_vars

\* C16: if the entry holding key K has one of its first move_count priors
\* overwritten so that the sum differs from Q(1.0) by more than 120 quanta,
\* TryGetPrediction(K, move_count) returns Miss with a reference to the chunk
\* and does not reset the entry's age to INT_MIN (the age only grows by the
\* probe's +1); a following Put(K, ...) on that chunk overwrites the same entry
\* in place, and the next probe hits again.
C16_SpliceRejectedThenRepaired ==
    /\ Probed =>
          LET i == FirstWithKey(LastCall.before, LastCall.key)
              address == ChunkOf(LastCall.key, tables)
          IN (i # 0 /\ ~WithinAllowance(LastCall.before[i], LastCall.moveCount)) =>
                /\ ~LastCall.hit
                /\ LastCall.chunk = address
                /\ chunks[address][i].age = LastCall.before[i].age + 1
                /\ chunks[address][i].age # IntMin
    /\ (Len(history) >= 1 /\ LastCall.op = "Put") =>
          LET i == FirstWithKey(LastCall.before, LastCall.key)
          IN i # 0 => LastCall.index = i
    /\ ProbedRightAfterPut => LastCall.hit

\* The whole story: a prior of the stored entry is overwritten, the probe
\* misses, the Put lands on the same entry and the next probe hits.
C16_Witness ==
    /\ Len(history) = 4
    /\ history[1].op = "Splice"
    /\ history[2].op = "TryGetPrediction" /\ ~history[2].hit
    /\ history[2].key = history[1].key /\ history[2].index = history[1].index
    /\ history[2].chunk = history[1].chunk
    /\ history[3].op = "Put" /\ history[3].key = history[1].key
    /\ history[3].index = history[1].index
    /\ history[4].op = "TryGetPrediction" /\ history[4].hit
    /\ history[4].key = history[1].key /\ history[4].value = history[3].value

\* C17: after any single-threaded sequence of Put calls, every entry whose last
\* Put had move_count < 56 holds priors[move_count] == Q(1.0), so a later probe
\* of that key with a move count larger than the stored one sums past the
\* tolerance and returns Miss.
C17_GuardQuantum ==
    /\ \A a \in Addresses : \A i \in 1..EntryCount :
          LET entry == chunks[a][i]
          IN (entry.moveCount > 0 /\ entry.moveCount < MaxMoveCount) =>
                entry.policyPriors[entry.moveCount + 1] = QuantizeProbabilityNoZero(1, 1)
    /\ Probed =>
          LET i == FirstWithKey(LastCall.before, LastCall.key)
          IN (/\ i # 0
              /\ LastCall.before[i].moveCount > 0
              /\ LastCall.before[i].whole
              /\ LastCall.moveCount > LastCall.before[i].moveCount) =>
                /\ ~LastCall.hit
                /\ SumTo(LastCall.before[i].policyPriors, LastCall.moveCount)
                      > QuantizeProbabilityNoZero(1, 1) + 120

\* A prediction stored for two moves is probed with 56 moves and missed.
C17_Witness ==
    /\ Probed
    /\ LastCall.key # ZeroKey
    /\ LastCall.index # 0
    /\ LastCall.before[LastCall.index].moveCount = 2
    /\ LastCall.before[LastCall.index].whole
    /\ LastCall.moveCount = MaxMoveCount
    /\ ~LastCall.hit
    /\ \E n \in 1..Len(history) : history[n].op = "Put" /\ history[n].key = LastCall.key

\* ------------------------------------------- PredictionCache::Allocate

\* The sizes Allocate is called with, in GiB: valid ones, one that is no power
\* of two, one above the maximum and a negative one.
RequestSizes == {0, 1, 2, 3, 2 * MaxTableCount}
MinSizes == {-1, 0, 1, 2}

\* sizeof(PredictionCacheChunk) and 1 << 30
ChunkBytes == 1024
BytesPerGib == MaxChunksPerTable * ChunkBytes

\* (n & (n - 1)) == 0 for n >= 0
PowerOfTwoOrZero(n) == n = 0 \/ \E k \in 0..30 : n = 2 ^ k

\* A chunk of memory that was used before: std::aligned_alloc does not clear it.
DirtyChunk == StoredChunk
Empty(chunk) == \A i \in 1..EntryCount : chunk[i].key = ZeroKey

InitAlloc ==
    /\ SearchIdle
    /\ CacheIdle
    /\ alloc = NotAllocated
    /\ search = NoSearch /\ ExtraIdle /\ UnitIdle

AllocFrame == UNCHANGED <<pending, history, raceVars, timeVars, extraVars, unitVars>> /\ UNCHANGED searchVars

\* Allocate up to its loop: the checks of the arguments, the early return and
\* Free.
Allocate ==
    /\ alloc.pc = "idle"
    /\ \E request \in RequestSizes, minGib \in MinSizes :
          LET requestGib == Max(request, minGib)
              called == [alloc EXCEPT !.requestGib = requestGib, !.minGib = minGib, !.tried = {}]
          IN IF \/ minGib < 0
                \/ requestGib > MaxTableCount \/ minGib > MaxTableCount
                \/ ~PowerOfTwoOrZero(requestGib) \/ ~PowerOfTwoOrZero(minGib)
             THEN /\ alloc' = [called EXCEPT !.outcome = "invalid"]
                  /\ UNCHANGED <<tables, chunks, metrics>>
             ELSE IF requestGib = alloc.allocatedRequestGib /\ minGib = alloc.allocatedMinGib
             THEN /\ alloc' = [called EXCEPT !.outcome = "unchanged"]
                  /\ UNCHANGED <<tables, chunks, metrics>>
             ELSE /\ alloc' = [called EXCEPT !.pc = "loop", !.outcome = "none",
                                             !.sizeGib = requestGib,
                                             !.chunksPerTable = MaxChunksPerTable,
                                             !.allocatedRequestGib = 0,
                                             !.allocatedMinGib = 0,
                                             !.live = @ - tables.count]
                  /\ tables' = NoTables
                  /\ chunks' = [a \in Addresses |-> FreshChunk(ZeroFill)]
                  /\ metrics' = NoMetrics
    /\ AllocFrame

\* The tables still allocated after TryAllocate failed, as if it did not free
\* the ones it got.
LiveAfterFailureLeaking(live, got) == live + got

\* The tables still allocated after TryAllocate failed having got some: it
\* frees them before returning.
LiveAfterFailure(live, got) == live

\* How many tables LargePageAllocator hands out before it fails, if it does.
Outcomes(tableCount) == {0, tableCount - 1, tableCount} \cap 0..tableCount

\* One turn of the loop of Allocate, with the TryAllocate call it makes.
AllocateLoop ==
    /\ alloc.pc = "loop"
    /\ LET tableSizeBytes == alloc.chunksPerTable * ChunkBytes
           tableCount == alloc.sizeGib * (BytesPerGib \div tableSizeBytes)
       IN IF tableCount > MaxTableCount
          THEN /\ alloc' = IF alloc.sizeGib > alloc.minGib
                           THEN [alloc EXCEPT !.sizeGib = @ \div 2,
                                              !.chunksPerTable = MaxChunksPerTable]
                           ELSE [alloc EXCEPT !.pc = "idle", !.outcome = "failed",
                                              !.sizeGib = 0, !.chunksPerTable = 0]
               /\ UNCHANGED <<tables, chunks, metrics>>
          ELSE \E got \in Outcomes(tableCount) :
                  IF got < tableCount
                  THEN /\ alloc' = [alloc EXCEPT
                                       !.live = LiveAfterFailure(@, got),
                                       !.tried = @ \cup {<<alloc.sizeGib, alloc.chunksPerTable>>},
                                       !.chunksPerTable = @ \div 2]
                       /\ UNCHANGED <<tables, chunks, metrics>>
                  ELSE /\ alloc' = [alloc EXCEPT !.pc = "idle", !.outcome = "allocated",
                                                 !.allocatedRequestGib = alloc.requestGib,
                                                 !.allocatedMinGib = alloc.minGib,
                                                 !.live = @ + tableCount]
                       /\ tables' = [count |-> tableCount,
                                     chunksPerTable |-> alloc.chunksPerTable]
                       /\ \E memory \in {FreshChunk(ZeroFill), ChunkClear(DirtyChunk)} :
                             chunks' = [a \in Addresses |-> memory]
                       /\ metrics' = NoMetrics
    /\ AllocFrame

\* The cache is used between two calls of Allocate: a probe misses and the
\* prediction is put.
StorePrediction ==
    /\ alloc.pc = "idle"
    /\ tables.count > 0
    /\ LET address == ChunkOf(KeyA, tables)
           got == ChunkTryGet(chunks[address], KeyA, RaceMoveCount)
           put == ChunkPut(got.chunk, KeyA, RaceValue["A"], RaceMoveCount, Uniform(RaceMoveCount))
       IN /\ ~got.hit
          /\ chunks' = [chunks EXCEPT ![address] = put.chunk]
          /\ metrics' = [metrics EXCEPT !.probeCount = @ + 1,
                                        !.entryCount = IF put.evicted THEN @ ELSE @ + 1,
                                        !.evictionCount = IF put.evicted THEN @ + 1 ELSE @]
    /\ UNCHANGED <<tables, alloc>>
    /\ AllocFrame

NextAlloc == Allocate \/ AllocateLoop \/ StorePrediction

SpecAlloc == InitAlloc /\ [][NextAlloc]_vars

\* The table sizes tried for a total size: from 1 GiB halving while the table
\* count stays within 256.
TableSizesOf(sizeGib) ==
    {c \in {MaxChunksPerTable \div (2 ^ k) : k \in 0..8} :
        sizeGib * (MaxChunksPerTable \div c) <= 256}

\* The total sizes tried: from the request halving down to the minimum.
TotalSizesOf(requestGib, minGib) ==
    {s \in {requestGib \div (2 ^ k) : k \in 0..9} : s >= minGib}

\* The combinations tried before the combination (sizeGib, chunksPerTable).
TriedBefore(requestGib, minGib, sizeGib, chunksPerTable) ==
    {<<s, c>> \in TotalSizesOf(requestGib, minGib) \X {MaxChunksPerTable \div (2 ^ k) : k \in 0..8} :
        /\ c \in TableSizesOf(s)
        /\ s > sizeGib \/ (s = sizeGib /\ c > chunksPerTable)}

ValidArguments == alloc'.minGib >= 0 /\ alloc'.requestGib <= 256
                  /\ PowerOfTwoOrZero(alloc'.requestGib) /\ PowerOfTwoOrZero(alloc'.minGib)

\* A call of Allocate returns normally in this step.
Returns == alloc' # alloc /\ alloc'.pc = "idle" /\ alloc'.outcome \in {"allocated", "unchanged"}

\* What holds of every return, early or not: the size is between the minimum
\* and the request, and exactly the tables of the cache are allocated.
SizeWithinRequest ==
    /\ alloc'.minGib <= alloc'.sizeGib
    /\ alloc'.sizeGib <= alloc'.requestGib
    /\ tables'.count <= 256
    /\ tables'.count = alloc'.sizeGib * (MaxChunksPerTable \div Max(1, tables'.chunksPerTable))
    /\ alloc'.live = tables'.count

\* C18 as stated: Allocate with valid arguments fails only after every
\* combination of total size and table size failed, and whenever it succeeds
\* the total size is between min and max(request, min), all chunks are empty
\* and no table of a failed attempt remains allocated.
C18_Step ==
    /\ (alloc' # alloc /\ alloc'.outcome = "invalid") => ~ValidArguments
    /\ (alloc' # alloc /\ alloc'.outcome = "failed") =>
          /\ alloc'.tried = TriedBefore(alloc.requestGib, alloc.minGib, alloc.minGib, 0)
          /\ alloc'.tried # {}
          /\ alloc'.live = 0 /\ tables'.count = 0
    /\ Returns =>
          /\ SizeWithinRequest
          /\ \A a \in Addresses : Empty(chunks'[a])
C18_AllocateEmpties == [][C18_Step]_vars

\* C18 amended: the same, except that a call with the request and minimum the
\* cache is already allocated with returns at once: it allocates nothing and
\* leaves tables and chunks as they are, entries included.  Every other
\* successful call stops at the first combination whose tables all allocate,
\* after freeing the previous tables, and leaves all chunks empty.
C18_AmendedStep ==
    /\ (alloc' # alloc /\ alloc'.outcome = "invalid") => ~ValidArguments
    /\ (alloc' # alloc /\ alloc'.outcome = "failed") =>
          /\ alloc'.tried = TriedBefore(alloc.requestGib, alloc.minGib, alloc.minGib, 0)
          /\ alloc'.tried # {}
          /\ alloc'.live = 0 /\ tables'.count = 0
    /\ (alloc.pc = "loop" /\ alloc'.pc = "loop") => (alloc'.live = 0 /\ tables'.count = 0)
    /\ Returns => SizeWithinRequest
    /\ (Returns /\ alloc'.outcome = "allocated") =>
          /\ alloc'.tried = TriedBefore(alloc.requestGib, alloc.minGib,
                                        alloc'.sizeGib, alloc'.chunksPerTable)
          /\ \A a \in Addresses : Empty(chunks'[a])
    /\ (Returns /\ alloc'.outcome = "unchanged") =>
          /\ UNCHANGED <<tables, chunks, metrics>>
          /\ alloc'.requestGib = alloc.allocatedRequestGib
          /\ alloc'.minGib = alloc.allocatedMinGib
C18_AllocateEmptiesUnlessIdentical == [][C18_AmendedStep]_vars

\* One GiB is allocated in tables of less than a GiB after larger tables
\* failed, although two were requested; and the cache holds a prediction
\* after an identical call returned.
C18_Witness ==
    /\ alloc.pc = "idle"
    /\ alloc.outcome = "unchanged"
    /\ alloc.allocatedRequestGib = 2 /\ alloc.allocatedMinGib = 1
    /\ alloc.sizeGib = 1
    /\ tables.count > 1
    /\ tables.chunksPerTable < MaxChunksPerTable
    /\ \E a \in Addresses : ~Empty(chunks[a])

\* ------------------------------------------------------- time control alone

\* The primary worker's search loop with its time-control check, and what the
\* other threads do to what the check reads: a secondary worker's simulations
\* and the controller's stop command.
InitTime ==
    /\ tree = [n \in Nodes |-> NewNode]
    /\ slot = [s \in Slots |-> NewSlot]
    /\ active = [t \in Threads |-> NoSlot]
    /\ finalized = [t \in Threads |-> FALSE]
    /\ allWorkItemsCompleted = FALSE
    /\ searchThreads = 2
    /\ position = [moves |-> MovesA, checkers |-> {5}]
    /\ puct = NoSelection
    /\ nodeCount = 0
    /\ failedNodeCount = 0
    /\ principalVariationChanged = FALSE
    /\ started = 0
    /\ takes = [n \in Nodes |-> 0]
    /\ CacheIdle
    /\ alloc = NotAllocated
    /\ ExtraIdle /\ UnitIdle
    /\ \E timeControl \in TimeControls, root \in Roots :
         search = [NoSearch EXCEPT !.pc = "play", !.timeControl = timeControl, !.root = root]

TimeFrame ==
    UNCHANGED <<tree, slot, active, finalized, searchThreads, position, puct, failedNodeCount,
                principalVariationChanged, started, takes, cacheVars, alloc, extraVars, unitVars>>

\* The roots one completed simulation can leave: a terminal root stays as it is,
\* an unexpanded root is expanded or found to be checkmate or stalemate, and a
\* simulation through an expanded root ends in UpdatePrincipalVariation.
Simulations(root) ==
    IF IsImmediate(root.terminalValue) THEN {root}
    ELSE IF ~root.expanded
    THEN IF root.moves = 0
         THEN {[root EXCEPT !.terminalValue = IF root.inCheck THEN MateIn(1) ELSE Draw]}
         ELSE {[root EXCEPT !.expanded = TRUE, !.childCount = root.moves]}
    ELSE {[root EXCEPT !.hasBest = TRUE, !.bestTerminalValue = v] : v \in BestTerminalValues}

\* LoopSearch, primary worker: SearchPlay, which completes a simulation or leaves
\* every game waiting for its prediction.
SearchPlay ==
    /\ search.pc = "play"
    /\ ~allWorkItemsCompleted
    /\ \/ /\ nodeCount < MaxSims
          /\ nodeCount' = nodeCount + 1
          /\ \E root \in Simulations(search.root) :
               search' = [search EXCEPT !.pc = "check", !.root = root]
       \/ /\ search' = [search EXCEPT !.pc = "check"]
          /\ UNCHANGED nodeCount
    /\ UNCHANGED allWorkItemsCompleted
    /\ TimeFrame

\* LoopSearch, primary worker: CheckTimeControl.
CheckTimeControl ==
    /\ search.pc = "check"
    /\ LET rule == TimeControlRule(search.timeControl, search.root, nodeCount, Times[search.clock])
       IN /\ allWorkItemsCompleted' = (allWorkItemsCompleted \/ rule # "none")
          /\ search' = [search EXCEPT
                 !.pc = "predict",
                 !.checked = [rule |-> rule, nodeCount |-> nodeCount,
                              searchTimeMs |-> Times[search.clock],
                              hadBest |-> search.root.hasBest]]
    /\ UNCHANGED nodeCount
    /\ TimeFrame

\* LoopSearch, primary worker: PredictBatch, and back to the head of the loop.
PredictBatch ==
    /\ search.pc = "predict"
    /\ search' = [search EXCEPT !.pc = "play", !.checked = NoCheck]
    /\ UNCHANGED <<nodeCount, allWorkItemsCompleted>>
    /\ TimeFrame

\* A secondary worker's RunMcts up to the count of its simulation.
SecondaryBackpropagate ==
    /\ searchThreads = 2
    /\ search.pc # "finished"
    /\ search.secondary = "idle"
    /\ nodeCount < MaxSims
    /\ nodeCount' = nodeCount + 1
    /\ IF search.root.expanded
       THEN search' = [search EXCEPT !.secondary = "pv"]
       ELSE \E root \in Simulations(search.root) : search' = [search EXCEPT !.root = root]
    /\ UNCHANGED allWorkItemsCompleted
    /\ TimeFrame

\* A secondary worker's UpdatePrincipalVariation.
SecondaryUpdatePrincipalVariation ==
    /\ search.secondary = "pv"
    /\ \E root \in Simulations(search.root) :
         search' = [search EXCEPT !.secondary = "idle", !.root = root]
    /\ UNCHANGED <<nodeCount, allWorkItemsCompleted>>
    /\ TimeFrame

\* high_resolution_clock::now() advances.
Tick ==
    /\ search.pc # "finished"
    /\ search.clock < Len(Times)
    /\ search' = [search EXCEPT !.clock = @ + 1]
    /\ UNCHANGED <<nodeCount, allWorkItemsCompleted>>
    /\ TimeFrame

\* A hard "stop" or "position" command.
StopCommand ==
    /\ search.pc # "finished"
    /\ ~allWorkItemsCompleted
    /\ allWorkItemsCompleted' = TRUE
    /\ UNCHANGED <<nodeCount, search>>
    /\ TimeFrame

\* LoopSearch, primary worker: the loop ends, FinalizeMcts and OnLoopSearchEnd.
LoopSearchEnd ==
    /\ search.pc = "play"
    /\ allWorkItemsCompleted
    /\ search.secondary = "idle"
    /\ search' = [search EXCEPT !.pc = "finished"]
    /\ UNCHANGED <<nodeCount, allWorkItemsCompleted>>
    /\ TimeFrame

\* The next "go" on the same position: SearchState::Reset, the tree is kept.
SearchGo ==
    /\ search.pc = "finished"
    /\ \E timeControl \in TimeControls :
         search' = [search EXCEPT !.pc = "play", !.timeControl = timeControl, !.clock = 1]
    /\ nodeCount' = 0
    /\ allWorkItemsCompleted' = FALSE
    /\ TimeFrame

NextTime ==
    \/ SearchPlay
    \/ CheckTimeControl
    \/ PredictBatch
    \/ SecondaryBackpropagate
    \/ SecondaryUpdatePrincipalVariation
    \/ Tick
    \/ StopCommand
    \/ LoopSearchEnd
    \/ SearchGo

SpecTime == InitTime /\ [][NextTime]_vars

\* A step of CheckTimeControl, and whether it called OnWorkItemCompleted.
CheckStep == search.pc = "check" /\ search'.pc = "predict"
Signalled == search'.checked.rule # "none"
TerminalRoot == ~search.root.hasBest /\ IsImmediate(search.root.terminalValue)

\* C19 as stated: in a search started with timeControl.infinite no execution of
\* CheckTimeControl calls OnWorkItemCompleted, whatever the node count, the
\* elapsed time, the proven mates or the state of the root.
C19_InfiniteCheckNeverSignals ==
    [][(CheckStep /\ search.timeControl.infinite) => ~Signalled]_vars

\* C19, amended: in a search started with timeControl.infinite an execution of
\* CheckTimeControl calls OnWorkItemCompleted exactly when the root has no best
\* child and its terminal value is immediate; with a best child at the root no
\* check stops the search, whatever the node count, the elapsed time and the
\* proven mates, and the stop flag is otherwise raised only by a stop command.
C19_Step ==
    search.timeControl.infinite =>
        /\ CheckStep => (Signalled <=> TerminalRoot)
        /\ (CheckStep /\ Signalled) => search'.checked.rule = "terminalRoot"
        /\ (CheckStep /\ ~Signalled) => allWorkItemsCompleted' = allWorkItemsCompleted
        /\ (~allWorkItemsCompleted /\ allWorkItemsCompleted')
              => \/ CheckStep /\ TerminalRoot
                 \/ search' = search /\ nodeCount' = nodeCount

C19_InfiniteStopsOnlyAtTerminalRoot == [][C19_Step]_vars

\* An infinite search whose check has just returned without stopping although the
\* node budget is consumed, the move time has passed and the requested mate is proven.
C19_Witness ==
    /\ search.pc = "predict"
    /\ search.timeControl.infinite
    /\ search.checked.rule = "none"
    /\ search.checked.hadBest
    /\ search.timeControl.nodes > 0
    /\ search.checked.nodeCount >= search.timeControl.nodes
    /\ search.timeControl.moveTimeMs > 0
    /\ search.checked.searchTimeMs >= search.timeControl.moveTimeMs
    /\ search.timeControl.mate > 0
    /\ search.root.bestTerminalValue = MateIn(1)
    /\ ~allWorkItemsCompleted

\* C20 as stated: in a search with a node budget nodes = N > 0 that is not
\* infinite, every check executed with nodeCount >= N calls OnWorkItemCompleted,
\* and the node rule does not stop the search while nodeCount < N.
NodeBudget == ~search.timeControl.infinite /\ search.timeControl.nodes > 0
BudgetConsumed == nodeCount >= search.timeControl.nodes

C20_EveryCheckPastBudgetSignals ==
    [][(NodeBudget /\ CheckStep) =>
          /\ BudgetConsumed => Signalled
          /\ ~BudgetConsumed => search'.checked.rule # "nodes"]_vars

\* C20, amended: in such a search every check executed with nodeCount >= N at a
\* root that has a best child calls OnWorkItemCompleted; a check at a root
\* without a best child calls it exactly when the root's terminal value is
\* immediate, whatever nodeCount is; and the node rule does not stop the search
\* while nodeCount < N.
C20_Step ==
    (NodeBudget /\ CheckStep) =>
        /\ (BudgetConsumed /\ search.root.hasBest)
              => Signalled /\ allWorkItemsCompleted' /\ search'.checked.rule \in {"mate", "nodes"}
        /\ ~search.root.hasBest => (Signalled <=> TerminalRoot)
        /\ ~BudgetConsumed => search'.checked.rule # "nodes"
        /\ search'.checked.rule = "nodes" => BudgetConsumed /\ search.root.hasBest

C20_CheckPastBudgetSignalsWithBestChild == [][C20_Step]_vars

\* A search with node budget 2 whose check has just stopped it by the node rule
\* at nodeCount = 2, no other rule applying.
C20_Witness ==
    /\ search.pc = "predict"
    /\ ~search.timeControl.infinite
    /\ search.timeControl.nodes = 2
    /\ search.timeControl.mate = 0
    /\ search.timeControl.moveTimeMs = 0
    /\ search.timeControl.timeRemainingMs = 0
    /\ search.checked.rule = "nodes"
    /\ search.checked.nodeCount = 2
    /\ search.checked.hadBest
    /\ allWorkItemsCompleted

\* ------------------------------------------------ immediate terminal leaves

\* Slot s runs ExpandAndEvaluate in this step on a node whose terminal value was
\* already immediate when the call began.
EvaluatesImmediate(s) ==
    /\ slot[s].pc = "evaluate"
    /\ slot'[s].pc = "evaluated"
    /\ IsImmediate(tree[ScratchRoot(s)].terminalValue)

\* C21: once a node's terminalValue is immediate (Draw or MateIn(1)), every
\* further ExpandAndEvaluate on it returns that value (a win for MateIn(1), a
\* draw for Draw) with state Working, takes no expansion ownership, claims no
\* cached or pending prediction and allocates no children; and the node keeps
\* its terminal value, stays unexpanded and is owned by nobody.
C21_Step ==
    /\ \A s \in Slots :
         EvaluatesImmediate(s) =>
            /\ slot'[s].value = IF tree[ScratchRoot(s)].terminalValue = MateIn(1)
                                THEN ValueWin ELSE ValueDraw
            /\ slot'[s].state = Working
            /\ slot'[s].owned = slot[s].owned
            /\ slot'[s].searchPath = slot[s].searchPath
            /\ tree' = tree
            /\ takes' = takes
    /\ \A n \in Nodes :
         IsImmediate(tree[n].terminalValue) =>
            /\ tree'[n].terminalValue = tree[n].terminalValue
            /\ tree'[n].children = <<>>
            /\ tree'[n].childCount = 0
            /\ tree'[n].expansion = ExpNone
            /\ \A s \in Slots : slot'[s].owned # n

C21_ImmediateLeafStaysLeaf == [][C21_Step]_vars

\* A checkmate leaf that an earlier simulation already visited and scored has
\* just been evaluated again: a win, state Working, still no children.
C21_Witness ==
    \E s \in Slots :
        /\ slot[s].pc = "evaluated"
        /\ slot[s].value = ValueWin
        /\ slot[s].wasImmediateMate
        /\ tree[ScratchRoot(s)].terminalValue = MateIn(1)
        /\ tree[ScratchRoot(s)].visitCount >= 1
        /\ ~IsExpanded(tree, ScratchRoot(s))

\* ------------------------------------------------- repetition draws alone

\* One leaf of the tree, at ply "ply" of its line, visited again and again while
\* the search root advances along the line towards it, sub-tree kept.
BaseIdle == SearchIdle /\ CacheIdle /\ alloc = NotAllocated /\ search = NoSearch /\ UnitIdle

InitRep ==
    /\ BaseIdle
    /\ sel = NoSel
    /\ searchGame = NoSearchGame
    /\ uci = NoUci
    /\ backprop = NoBackprop
    /\ \E ply \in 0..MaxPly, repetition \in Repetitions, draw \in BOOLEAN,
          moves \in {0, 2}, inCheck \in BOOLEAN :
         rep = [NoRep EXCEPT !.pc = "leaf", !.ply = ply, !.repetition = repetition,
                             !.noProgressOrThreefold = draw, !.workingMoveCount = moves,
                             !.inCheck = inCheck]

RepFrame == UNCHANGED <<searchVars, cacheVars, alloc, timeVars, unitVars, sel, searchGame, uci, backprop>>

\* SelfPlayGame::ExpandAndEvaluate on the leaf with state Working, up to its
\* return; "hit" is whether the prediction cache holds the position.
ExpandAndEvaluateLeaf ==
    /\ rep.pc = "leaf"
    /\ rep.state = Working
    /\ rep.expansion # ExpExpanded
    /\ LET plyToSearchRoot == rep.ply - rep.searchRootPly
           returned == [rep EXCEPT !.pc = "returned"]
       IN IF IsImmediate(rep.terminalValue)
          THEN rep' = [returned EXCEPT !.value = ImmediateValue(rep.terminalValue)]
          ELSE IF rep.workingMoveCount = 0
          THEN LET newTerminalValue == IF rep.inCheck THEN MateIn(1) ELSE Draw
               IN rep' = [returned EXCEPT !.terminalValue = newTerminalValue,
                                          !.value = ImmediateValue(newTerminalValue)]
          ELSE IF rep.noProgressOrThreefold
          THEN rep' = [returned EXCEPT !.terminalValue = Draw, !.value = ImmediateValue(Draw)]
          ELSE IF IsDrawByTwofoldRepetition(rep.repetition, plyToSearchRoot)
          THEN rep' = [returned EXCEPT !.value = ImmediateValue(Draw), !.scoredTwofold = TRUE]
          ELSE IF rep.expansion # ExpNone
          THEN rep' = [returned EXCEPT !.value = NaN]
          ELSE \E hit \in BOOLEAN :
                 IF hit
                 THEN rep' = [returned EXCEPT !.expansion = ExpExpanded,
                                              !.childCount = rep.workingMoveCount,
                                              !.value = ValueNet]
                 ELSE rep' = [returned EXCEPT !.expansion = ExpExpanding,
                                              !.state = WaitingForPrediction, !.value = NaN]
    /\ RepFrame

\* ExpandAndEvaluate resumed with the network's prediction: FinishExpanding.
FinishExpandingLeaf ==
    /\ rep.pc = "returned"
    /\ rep.state = WaitingForPrediction
    /\ rep' = [rep EXCEPT !.state = Working, !.expansion = ExpExpanded,
                          !.childCount = rep.workingMoveCount, !.value = ValueNet]
    /\ RepFrame

\* The simulation ends and a later one reaches the leaf again.
VisitLeafAgain ==
    /\ rep.pc = "returned"
    /\ rep.state = Working
    /\ rep.expansion # ExpExpanded
    /\ rep' = [rep EXCEPT !.pc = "leaf", !.value = NaN]
    /\ RepFrame

\* SetUpGameExisting plays the next move of the line: its node becomes the root,
\* the sub-tree with the leaf is kept and the search root's ply is updated.
AdvanceSearchRoot ==
    /\ rep.pc # "none"
    /\ rep.state = Working
    /\ rep.searchRootPly < rep.ply
    /\ rep' = [rep EXCEPT !.searchRootPly = @ + 1,
                         !.pc = IF @ = "returned" /\ rep.expansion # ExpExpanded THEN "leaf" ELSE @,
                         !.value = NaN]
    /\ RepFrame

NextRep ==
    \/ ExpandAndEvaluateLeaf
    \/ FinishExpandingLeaf
    \/ VisitLeafAgain
    \/ AdvanceSearchRoot

SpecRep == InitRep /\ [][NextRep]_vars

RepCall == rep.pc = "leaf" /\ rep'.pc = "returned"
RepPlayable ==
    /\ ~IsImmediate(rep.terminalValue)
    /\ rep.workingMoveCount > 0
    /\ ~rep.noProgressOrThreefold
RepeatsAfterSearchRoot ==
    (0 < rep.repetition) /\ (rep.repetition < rep.ply - rep.searchRootPly)

\* C22: a call of ExpandAndEvaluate on a leaf that repeats a position whose
\* earlier occurrence lies strictly after the search root returns the draw value,
\* leaves the terminal value non-terminal, takes no ownership and allocates no
\* children; a call on the same leaf once the earlier occurrence no longer lies
\* after the search root takes ownership and expands it (at once on a cache hit,
\* by FinishExpanding otherwise); and a call on the search root itself is never
\* scored as such a draw.
C22_Step ==
    /\ (RepCall /\ RepPlayable /\ RepeatsAfterSearchRoot) =>
          /\ rep'.value = ValueDraw
          /\ rep'.state = Working
          /\ rep'.terminalValue = NonTerminal
          /\ rep'.expansion = ExpNone
          /\ rep'.childCount = 0
    /\ (RepCall /\ RepPlayable /\ ~RepeatsAfterSearchRoot) =>
          /\ rep'.terminalValue = NonTerminal
          /\ \/ rep'.expansion = ExpExpanded /\ rep'.childCount = rep.workingMoveCount
                   /\ rep'.state = Working /\ rep'.value = ValueNet
             \/ rep'.expansion = ExpExpanding /\ rep'.state = WaitingForPrediction
    /\ (rep.state = WaitingForPrediction /\ rep'.state = Working) =>
          rep'.expansion = ExpExpanded /\ rep'.childCount = rep.workingMoveCount
    /\ (RepCall /\ rep.ply = rep.searchRootPly) =>
          /\ rep'.scoredTwofold = rep.scoredTwofold
          /\ ~(rep'.value = ValueDraw /\ rep'.terminalValue = NonTerminal)

Backpropagates(s) ==
    slot[s].pc = "evaluated" /\ slot'[s].pc # "evaluated" /\ nodeCount' = nodeCount + 1

\* The search path of slot s runs from the root down, one node per level.
PathFromRoot(s) ==
    LET path == slot[s].searchPath
    IN /\ path # <<>>
       /\ path[1] = RootNode
       /\ \A i \in 1..(Len(path) - 1) : path[i + 1] \in Range(tree[path[i]].children)

C23_VisitStep ==
    \A s \in Slots :
        Backpropagates(s) =>
            /\ PathFromRoot(s)
            /\ \A n \in Nodes :
                 tree'[n].visitCount =
                    tree[n].visitCount + (IF n \in Range(slot[s].searchPath) THEN 1 ELSE 0)

C23_RootVisits ==
    (searchThreads = 1) =>
        /\ LegalMoves[RootNode] # <<>> => tree[RootNode].visitCount = nodeCount
        /\ (LegalMoves[RootNode] = <<>> /\ nodeCount >= 1 /\ \A s \in Slots : slot[s].pc = "idle")
              => tree[RootNode].visitCount = 1

Games ==
    [tryHard : BOOLEAN, allowDiversity : BOOLEAN, samplingPly : BOOLEAN,
     diversityPly : BOOLEAN, lowMaterial : BOOLEAN]

\* The priors a uniform evaluator leaves on the nodes.
UniformPriors == [n \in Nodes |-> 1]

\* SelfPlayWorker::CollectBestMoves: the best child and the children of its
\* tablebase rank and mate category; the value threshold can only remove some.
CollectBestMoves(t, parent) ==
    {BestChild(t, parent)} \cup
        {c \in Range(t[parent].children) : SameRankAndMate(t, BestChild(t, parent), c)}

\* A variant that takes the first child whatever the priors are.
HighestPriorFirstChild(kids, quantizedPrior) == kids[1]

\* The loop of SelectMove over the root's children: the first child with the
\* highest quantizedPrior.
HighestPrior(kids, quantizedPrior) ==
    LET bestPrior[i \in 0..Len(kids)] ==
            IF i = 0 THEN NoNode
            ELSE IF bestPrior[i - 1] = NoNode
                    \/ quantizedPrior[bestPrior[i - 1]] < quantizedPrior[kids[i]]
                 THEN kids[i]
                 ELSE bestPrior[i - 1]
    IN bestPrior[Len(kids)]

\* A variant that ignores proven mates and offers every visited child.
SelectMoveByVisitsOnly(t, quantizedPrior, game) ==
    {c \in Range(t[RootNode].children) : t[c].visitCount > 0}

\* SelfPlayWorker::SelectMove: the nodes it may return. The sampling branches
\* draw from the children with a positive weight, and MinimaxRoot returns the
\* best child or one of CollectBestMoves.
SelectMove(t, quantizedPrior, game) ==
    LET bestChild == BestChild(t, RootNode)
    IN IF bestChild = NoNode
       THEN IF t[RootNode].expansion = ExpExpanded
            THEN {HighestPrior(t[RootNode].children, quantizedPrior)}
            ELSE {RootNode}
       ELSE IF ~game.tryHard /\ game.allowDiversity /\ game.samplingPly
            THEN {c \in Range(t[RootNode].children) : t[c].visitCount > 0}
       ELSE IF game.tryHard /\ game.allowDiversity /\ game.diversityPly
            THEN CollectBestMoves(t, RootNode)
       ELSE IF game.tryHard /\ game.lowMaterial
            THEN CollectBestMoves(t, RootNode)
       ELSE {bestChild}

\* The root's moves that deliver checkmate, once a simulation has visited them.
MatingMovesVisited ==
    {c \in Range(tree[RootNode].children) :
        c \in position.checkers /\ position.moves[c] = <<>> /\ tree[c].visitCount > 0}

\* C24 as stated: with one search thread, once a simulation has visited a root
\* move that delivers checkmate and updated the principal variation, SelectMove
\* returns that move, the root's terminalValue is not immediate, and the root's
\* BestChild has terminalValue MateIn(2).
C24_BestChildMateInTwo ==
    (searchThreads = 1 /\ BetweenUpdates /\ MatingMovesVisited # {}) =>
        /\ \A game \in Games :
               game.tryHard => SelectMove(tree, UniformPriors, game) \subseteq MatingMovesVisited
        /\ ~IsImmediate(tree[RootNode].terminalValue)
        /\ tree[BestChild(tree, RootNode)].terminalValue = MateIn(2)

\* C24 amended: with one search thread, once a simulation has visited a root
\* move that delivers checkmate and updated the principal variation, a game that
\* tries hard gets that move from SelectMove, the root's terminalValue is
\* OpponentMateIn(1), which is not immediate, and the root's BestChild has
\* terminalValue MateIn(1).
C24_BestChildMateInOne ==
    (searchThreads = 1 /\ BetweenUpdates /\ MatingMovesVisited # {}) =>
        /\ \A game \in Games :
               game.tryHard => SelectMove(tree, UniformPriors, game) \subseteq MatingMovesVisited
        /\ tree[RootNode].terminalValue = OpponentMateIn(1)
        /\ ~IsImmediate(tree[RootNode].terminalValue)
        /\ BestChild(tree, RootNode) # NoNode
        /\ tree[BestChild(tree, RootNode)].terminalValue = MateIn(1)

\* The mating move was found after another root move had been visited and had
\* become the best child.
C24_Witness ==
    /\ searchThreads = 1
    /\ BetweenUpdates
    /\ MatingMovesVisited # {}
    /\ BestChild(tree, RootNode) \in MatingMovesVisited
    /\ tree[RootNode].bestIndex # 0
    /\ tree[tree[RootNode].children[1]].visitCount > 0
    /\ \A game \in Games :
           game.tryHard => SelectMove(tree, UniformPriors, game) = MatingMovesVisited


\* --------------------------------------------------------- SelectMove alone

\* The priors the root's children may carry.
Priors == 0..2

\* The visits a child of the root may have when the move is selected.
ChildVisits == 0..2

\* The root when the search has ended: without children while it is unexpanded
\* or its prediction is awaited, with children and no visits right after
\* Expand, and with a most-visited child as its best child once children have
\* been visited.
SelectTree(kids, expansion, visits, bestIndex) ==
    [n \in Nodes |->
        IF n = RootNode
        THEN [NewNode EXCEPT !.children = kids, !.childCount = Len(kids),
                             !.expansion = expansion, !.bestIndex = bestIndex,
                             !.visitCount = IF expansion = ExpExpanded
                                            THEN 1 + SumTo([i \in 1..Len(kids) |-> visits[kids[i]]], Len(kids))
                                            ELSE 0]
        ELSE IF n \in Range(kids) THEN [NewNode EXCEPT !.visitCount = visits[n]]
        ELSE NewNode]

InitSelect ==
    /\ slot = [s \in Slots |-> NewSlot]
    /\ active = [t \in Threads |-> NoSlot]
    /\ finalized = [t \in Threads |-> TRUE]
    /\ allWorkItemsCompleted = TRUE
    /\ searchThreads = 1
    /\ position \in {p \in Positions : p.checkers = {5}}
    /\ puct = NoSelection
    /\ failedNodeCount = 0
    /\ principalVariationChanged = FALSE
    /\ started = 0
    /\ takes = [n \in Nodes |-> 0]
    /\ CacheIdle /\ alloc = NotAllocated /\ search = NoSearch /\ UnitIdle /\ rep = NoRep
    /\ searchGame = NoSearchGame
    /\ uci = NoUci
    /\ backprop = NoBackprop
    /\ \E expansion \in {ExpNone, ExpExpanding, ExpExpanded}, withChildren \in BOOLEAN,
          visits \in [Nodes -> ChildVisits] :
         LET kids == IF withChildren THEN position.moves[RootNode] ELSE <<>>
             visited == {i \in 1..Len(kids) : visits[kids[i]] > 0}
             most == {i \in visited : \A j \in visited : visits[kids[j]] <= visits[kids[i]]}
         IN /\ (expansion = ExpExpanded) => withChildren
            /\ (expansion = ExpNone) => ~withChildren
            /\ \A n \in Nodes : (expansion # ExpExpanded \/ n \notin Range(kids)) => visits[n] = 0
            /\ \E bestIndex \in {NoBest} \cup {i - 1 : i \in most} :
                 /\ (bestIndex = NoBest) <=> (visited = {})
                 /\ tree = SelectTree(kids, expansion, visits, bestIndex)
                 /\ nodeCount = tree[RootNode].visitCount
    /\ \E quantizedPrior \in [Nodes -> Priors], game \in Games :
         /\ \A n \in Nodes : n \notin Range(tree[RootNode].children) => quantizedPrior[n] = 0
         /\ sel = [NoSel EXCEPT !.pc = "call", !.quantizedPrior = quantizedPrior, !.game = game]

\* SelfPlayWorker::SelectMove on the root, for the game's flags.
SelectMoveCall ==
    /\ sel.pc = "call"
    /\ \E result \in SelectMove(tree, sel.quantizedPrior, sel.game) :
         sel' = [sel EXCEPT !.pc = "done", !.result = result]
    /\ UNCHANGED <<searchVars, cacheVars, alloc, timeVars, unitVars, rep, searchGame, uci, backprop>>

NextSelect == SelectMoveCall

SpecSelect == InitSelect /\ [][NextSelect]_vars

\* C25: a SelectMove call on a root that is not expanded returns the root; on an
\* expanded root without a best child it returns a child whose quantizedPrior no
\* other child exceeds; and on every expanded root it returns one of the root's
\* children.
C25_SelectMoveFallback ==
    sel.pc = "done" =>
        LET kids == Range(tree[RootNode].children)
        IN /\ (tree[RootNode].expansion # ExpExpanded) => sel.result = RootNode
           /\ (tree[RootNode].expansion = ExpExpanded /\ BestChild(tree, RootNode) = NoNode) =>
                 /\ sel.result \in kids
                 /\ \A c \in kids : sel.quantizedPrior[c] <= sel.quantizedPrior[sel.result]
           /\ (tree[RootNode].expansion = ExpExpanded) => sel.result \in kids

\* An expanded root without a best child, whose last child has the highest
\* prior, gave that child.
C25_Witness ==
    /\ sel.pc = "done"
    /\ tree[RootNode].expansion = ExpExpanded
    /\ BestChild(tree, RootNode) = NoNode
    /\ Len(tree[RootNode].children) = 3
    /\ sel.result = tree[RootNode].children[3]
    /\ sel.quantizedPrior[tree[RootNode].children[1]] < sel.quantizedPrior[sel.result]
    /\ sel.quantizedPrior[tree[RootNode].children[2]] < sel.quantizedPrior[sel.result]


\* ------------------------------------------- position updates and pruning

\* The FENs and move lists a position command may carry; a move is named by its
\* index among the legal moves of its position, which is the index of the child
\* that Expand creates for it.
Fens == {"startpos", "other"}
MaxChildren == 2
MaxLine == 2
MoveLists == UNION {[1..n -> 1..MaxChildren] : n \in 0..MaxLine}

\* The node heap of the game: the nodes, the state of each allocation, the root.
Heap == [t |-> tree, status |-> searchGame.status, root |-> searchGame.root]

UnusedNodes(h) == {a \in HeapNodes : h.status[a] = Unused}

\* new Node(): the next address never handed out.
NewAddress(h) == CHOOSE a \in UnusedNodes(h) : \A b \in UnusedNodes(h) : a <= b

\* delete and delete[]: the allocations of a set of nodes end.
Delete(h, nodes) ==
    [h EXCEPT !.status = [a \in HeapNodes |->
                            IF a \notin nodes THEN h.status[a]
                            ELSE IF h.status[a] = Live THEN Freed ELSE FreedTwice]]

RECURSIVE PruneAllInternal(_, _)
\* SelfPlayGame::PruneAllInternal
PruneAllInternal(h, node) ==
    LET kids == h.t[node].children
        pruned[i \in 0..Len(kids)] ==
            IF i = 0 THEN h
            ELSE IF pruned[i - 1].t[kids[i]].children # <<>>
                 THEN PruneAllInternal(pruned[i - 1], kids[i])
                 ELSE pruned[i - 1]
        deleted == Delete(pruned[Len(kids)], Range(kids))
    IN [deleted EXCEPT !.t[node].children = <<>>, !.t[node].childCount = 0]

\* SelfPlayGame::PruneAll
PruneAll(h) ==
    IF h.root = NoNode THEN h
    ELSE [Delete(PruneAllInternal(h, h.root), {h.root}) EXCEPT !.root = NoNode]

\* A variant that leaves the children of "except" attached to the original.
PruneExceptAttached(h, root, except) ==
    IF root = NoNode THEN h
    ELSE LET clone == NewAddress(h)
             hoisted == [h EXCEPT !.root = clone, !.status[clone] = Live, !.t[clone] = h.t[except]]
         IN Delete(PruneAllInternal(hoisted, root), {root})

\* SelfPlayGame::PruneExcept, called with _root = except
PruneExcept(h, root, except) ==
    IF root = NoNode THEN h
    ELSE LET clone == NewAddress(h)
             hoisted == [h EXCEPT !.root = clone, !.status[clone] = Live, !.t[clone] = h.t[except],
                                  !.t[except].children = <<>>, !.t[except].childCount = 0]
         IN Delete(PruneAllInternal(hoisted, root), {root})

\* SelfPlayGame::SelfPlayGame(fen, moves, ...) and the last iteration of
\* SetUpGameExisting: _root = new Node().
WithNewRoot(h) ==
    LET fresh == NewAddress(h)
    IN [h EXCEPT !.root = fresh, !.status[fresh] = Live, !.t[fresh] = NewNode]

RECURSIVE ApplyNewMoves(_, _, _)
\* The loop of SelfPlayWorker::SetUpGameExisting from moves[i] on.
ApplyNewMoves(h, moves, i) ==
    IF i > Len(moves) THEN h
    ELSE LET move == moves[i]
             root == h.root
             newRoot == IF root # NoNode /\ move <= Len(h.t[root].children)
                        THEN h.t[root].children[move]
                        ELSE NoNode
             applied == IF newRoot # NoNode
                        THEN PruneExcept([h EXCEPT !.root = newRoot], root, newRoot)
                        ELSE IF i = Len(moves) THEN WithNewRoot(PruneAll(h))
                        ELSE PruneAll(h)
         IN ApplyNewMoves(applied, moves, i + 1)

RECURSIVE Subtree(_, _)
\* A node and its descendants.
Subtree(t, n) ==
    IF n = NoNode THEN {}
    ELSE {n} \cup UNION {Subtree(t, t[n].children[i]) : i \in 1..Len(t[n].children)}

RECURSIVE LegalLine(_, _, _, _)
\* The moves from moves[i] on are legal as far as the tree below n knows.
LegalLine(t, n, moves, i) ==
    IF i > Len(moves) THEN TRUE
    ELSE IF n = NoNode THEN TRUE
    ELSE IF t[n].children = <<>> THEN t[n].terminalValue = NonTerminal
    ELSE /\ moves[i] <= Len(t[n].children)
         /\ LegalLine(t, t[n].children[moves[i]], moves, i + 1)

IsPrefix(a, b) == Len(a) <= Len(b) /\ SubSeq(b, 1, Len(a)) = a

InitUpdate ==
    /\ slot = [s \in Slots |-> NewSlot]
    /\ active = [t \in Threads |-> NoSlot]
    /\ finalized = [t \in Threads |-> FALSE]
    /\ allWorkItemsCompleted = FALSE
    /\ searchThreads = 1
    /\ position = [moves |-> MovesA, checkers |-> {5}]
    /\ puct = NoSelection
    /\ nodeCount = 0
    /\ failedNodeCount = 0
    /\ principalVariationChanged = FALSE
    /\ started = 0
    /\ takes = [n \in Nodes |-> 0]
    /\ CacheIdle /\ alloc = NotAllocated /\ search = NoSearch /\ UnitIdle /\ rep = NoRep /\ sel = NoSel
    /\ tree = [a \in HeapNodes |-> NewNode]
    /\ searchGame = NoSearchGame
    /\ uci = NoUci
    /\ backprop = NoBackprop

UpdateFrame ==
    UNCHANGED <<slot, active, finalized, allWorkItemsCompleted, searchThreads, position, puct,
                nodeCount, failedNodeCount, principalVariationChanged, started, takes,
                cacheVars, alloc, timeVars, unitVars, rep, sel, uci, backprop>>

\* SelfPlayWorker::SearchUpdatePosition. PrepareExpandedRoot writes only the
\* first-play urgency of the new root's children.
SearchUpdatePosition(fen, moves, forceNewPosition) ==
    LET reuse == /\ ~forceNewPosition
                 /\ searchGame.tryHard
                 /\ fen = searchGame.positionFen
                 /\ Len(moves) >= Len(searchGame.positionMoves)
                 /\ SubSeq(moves, 1, Len(searchGame.positionMoves)) = searchGame.positionMoves
        offset == Len(searchGame.positionMoves)
        after == IF reuse THEN ApplyNewMoves(Heap, moves, offset + 1)
                 ELSE WithNewRoot(PruneAll(Heap))
    IN /\ Cardinality(UnusedNodes(Heap)) > Len(moves)
       /\ reuse => LegalLine(tree, searchGame.root, moves, offset + 1)
       /\ tree' = after.t
       /\ searchGame' = [searchGame EXCEPT
                           !.root = after.root, !.status = after.status, !.tryHard = TRUE,
                           !.positionFen = fen, !.positionMoves = moves,
                           !.searchRootPly = Len(moves),
                           !.call = [fen |-> fen, moves |-> moves,
                                     forceNewPosition |-> forceNewPosition, reused |-> reuse,
                                     tail |-> IF reuse THEN Len(moves) - offset ELSE 0]]
       /\ UpdateFrame

\* One simulation of the search on the game: it visits the nodes from the root
\* to a leaf and either expands the leaf with one child per legal move or finds
\* it without legal moves.
SearchSimulation(leaf, childCount, terminalValue) ==
    /\ searchGame.root # NoNode
    /\ leaf \in Subtree(tree, searchGame.root)
    /\ tree[leaf].children = <<>>
    /\ tree[leaf].terminalValue = NonTerminal
    /\ (childCount = 0) <=> (terminalValue # NonTerminal)
    /\ Cardinality(UnusedNodes(Heap)) >= childCount
    /\ LET path == {n \in Subtree(tree, searchGame.root) : leaf \in Subtree(tree, n)}
           new[i \in 0..childCount] ==
               IF i = 0 THEN Heap
               ELSE LET a == NewAddress(new[i - 1])
                    IN [new[i - 1] EXCEPT !.status[a] = Live, !.t[a] = NewNode,
                                          !.t[leaf].children = Append(@, a)]
           expanded == new[childCount]
       IN /\ tree' = [a \in HeapNodes |->
                        IF a = leaf
                        THEN [expanded.t[a] EXCEPT
                                !.childCount = childCount,
                                !.expansion = IF childCount > 0 THEN ExpExpanded ELSE ExpNone,
                                !.terminalValue = terminalValue,
                                !.visitCount = @ + 1]
                        ELSE IF a \in path THEN [expanded.t[a] EXCEPT !.visitCount = @ + 1]
                        ELSE expanded.t[a]]
          /\ searchGame' = [searchGame EXCEPT !.status = expanded.status]
    /\ UpdateFrame

NextUpdate ==
    \/ \E fen \in Fens, moves \in MoveLists, forceNewPosition \in BOOLEAN :
         SearchUpdatePosition(fen, moves, forceNewPosition)
    \/ \E leaf \in HeapNodes, childCount \in 0..MaxChildren,
          terminalValue \in {NonTerminal, Draw, MateIn(1)} :
         SearchSimulation(leaf, childCount, terminalValue)

SpecUpdate == InitUpdate /\ [][NextUpdate]_vars

RECURSIVE Descend(_, _, _, _)
\* The node that the moves from moves[i] on lead to below n, through matching
\* children only.
Descend(t, n, moves, i) ==
    IF i > Len(moves) \/ n = NoNode THEN n
    ELSE IF moves[i] <= Len(t[n].children)
         THEN Descend(t, t[n].children[moves[i]], moves, i + 1)
    ELSE NoNode

\* A step that is a SearchUpdatePosition call other than the repetition of the
\* position already set up.
UpdatesPosition ==
    searchGame'.root # searchGame.root \/ searchGame'.call # searchGame.call

C26_Step ==
    UpdatesPosition =>
        LET call == searchGame'.call
            reusable == /\ ~call.forceNewPosition
                        /\ searchGame.tryHard
                        /\ call.fen = searchGame.positionFen
                        /\ IsPrefix(searchGame.positionMoves, call.moves)
            target == IF reusable
                      THEN Descend(tree, searchGame.root, call.moves,
                                   Len(searchGame.positionMoves) + 1)
                      ELSE NoNode
            kept == Subtree(tree, target) \ {target}
            root == searchGame'.root
        IN /\ root # NoNode
           /\ searchGame'.status[root] = Live
           /\ \A a \in HeapNodes : searchGame'.status[a] # FreedTwice
           /\ {a \in HeapNodes : searchGame'.status[a] = Live} = Subtree(tree', root)
           /\ (target # NoNode) =>
                 /\ tree'[root] = tree[target]
                 /\ \A a \in kept : tree'[a] = tree[a]
                 /\ \A a \in HeapNodes :
                       (searchGame.status[a] = Live /\ a \notin kept /\ a # root)
                           => searchGame'.status[a] = Freed
           /\ (target = NoNode) =>
                 /\ tree'[root] = NewNode
                 /\ \A a \in HeapNodes :
                       searchGame.status[a] = Live => searchGame'.status[a] = Freed

\* C26: a SearchUpdatePosition call that may reuse the position (forceNew false,
\* a search game, the same FEN, the previous moves a prefix of the new ones) and
\* whose tail moves all match children makes the last matched child, with its
\* visits, children and terminal value, the root, keeps that child's descendants
\* and frees every other node; every other call frees every node and leaves a
\* fresh unexpanded root. The root is never null afterwards and nothing is freed
\* twice.
C26_UpdateExtendsOrReplaces == [][C26_Step]_vars

\* Two tail moves matched and the grandchild's expanded subtree became the root.
C26_Witness ==
    /\ searchGame.call.reused
    /\ searchGame.call.tail >= 2
    /\ searchGame.root # NoNode
    /\ tree[searchGame.root].children # <<>>
    /\ tree[searchGame.root].visitCount > 0
    /\ \E a \in HeapNodes : searchGame.status[a] = Freed


\* ------------------------------------------------------ the position command

\* The tokens of a position command: what follows "position" ("fen",
\* "startpos" or anything else), the FEN text, and the move tokens, of which
\* "e7e9" is no legal move of any position.
FirstTokens == {"fen", "startpos", "junk"}
StartingPosition == "startpos fen"
FenTexts == {"valid fen", "malformed fen"}
LegalTokens == {"e2e4", "e7e5"}
MoveTokens == LegalTokens \cup {"e7e9"}
MoveNone == "none"
MaxTokens == 2
MaxCommands == 2
Commands ==
    {c \in [first : FirstTokens, fen : FenTexts \cup {""},
            moves : UNION {[1..n -> MoveTokens] : n \in 0..MaxTokens}] :
        (c.fen = "") <=> (c.first # "fen")}

\* UCI::to_move: the move a token names in the position, MOVE_NONE for a token
\* that names no legal move.
ToMove(token) == IF token \in LegalTokens THEN token ELSE MoveNone

\* The loop of HandlePosition over the move tokens: the moves up to the first
\* token that names no legal move.
ParsedMoves(tokens) ==
    LET stops == {i \in 1..Len(tokens) : ToMove(tokens[i]) = MoveNone}
        count == IF stops = {} THEN Len(tokens)
                 ELSE (CHOOSE i \in stops : \A j \in stops : i <= j) - 1
    IN [i \in 1..count |-> ToMove(tokens[i])]

InitUci ==
    /\ BaseIdle
    /\ rep = NoRep /\ sel = NoSel /\ searchGame = NoSearchGame /\ backprop = NoBackprop
    /\ uci = NoUci

UciFrame == UNCHANGED <<searchVars, cacheVars, alloc, timeVars, unitVars, rep, sel, searchGame, backprop>>

\* ChessCoachUci::HandlePosition. Position::set trusts the FEN: on a malformed
\* one it either fails or leaves some position, and the handler goes on.
HandlePosition(command, setFails) ==
    /\ ~uci.failed
    /\ Len(uci.signalled) < MaxCommands
    /\ LET fen == IF command.first = "fen" THEN command.fen ELSE StartingPosition
           moves == ParsedMoves(command.moves)
       IN IF fen = "malformed fen" /\ setFails
          THEN uci' = [uci EXCEPT !.failed = TRUE, !.last = command, !.lastSignalled = FALSE]
          ELSE uci' = [uci EXCEPT !.worker = TRUE,
                                  !.signalled = Append(@, [fen |-> fen, moves |-> moves]),
                                  !.last = command, !.lastSignalled = TRUE]
    /\ UciFrame

\* ChessCoachUci::HandleUciNewGame
HandleUciNewGame ==
    /\ ~uci.failed
    /\ ~uci.worker
    /\ uci' = [uci EXCEPT !.worker = TRUE]
    /\ UciFrame

NextUci ==
    \/ \E command \in Commands, setFails \in BOOLEAN : HandlePosition(command, setFails)
    \/ HandleUciNewGame

SpecUci == InitUci /\ [][NextUci]_vars

\* A command with a token that names no legal move, or with a malformed FEN.
InvalidInput(command) ==
    \/ \E i \in 1..Len(command.moves) : command.moves[i] \notin LegalTokens
    \/ command.first = "fen" /\ command.fen = "malformed fen"

\* C27 as stated: a position command with an illegal move or a malformed FEN is
\* not signalled to the search worker.
C27_InvalidInputNotSignalled ==
    (uci.last # NoCommand /\ InvalidInput(uci.last)) => ~uci.lastSignalled


\* ------------------------------------------------ selective backpropagation

\* CHESSCOACH_VALUE_LOSS, _DRAW and _WIN on a scale of hundredths. The default
\* first-play urgency is the loss score and the root's is the win score.
Scores == [loss |-> 0, draw |-> 50, win |-> 100]
FirstPlayUrgencyDefault == Scores.loss
FirstPlayUrgencyRoot == Scores.win

\* Game::FlipValue: the value from the other player's perspective.
FlipValue(value) == Scores.win - value

\* Node::BoundScore of a node with a terminal value.
BoundScore(bound) ==
    IF bound = BOUND_UPPER THEN Scores.loss
    ELSE IF bound = BOUND_LOWER THEN Scores.win
    ELSE Scores.draw

\* Node::BoundedValue
BoundedValue(t, n, value) ==
    LET bound == GetBound(t, n)
    IN IF bound = BOUND_NONE THEN value
       ELSE IF bound = BOUND_UPPER THEN Min(BoundScore(bound), value)
       ELSE IF bound = BOUND_LOWER THEN Max(BoundScore(bound), value)
       ELSE BoundScore(bound)

\* The new average of Node::SampleValue: the first sample replaces the seed, the
\* later ones move the average by half the difference.
MovingAverage(current, value, newWeight) ==
    current + (value - current) \div Min(Max(newWeight, 1), 2)

\* A variant that keeps the weight chain at 1 whatever the path says.
LevelWeightAlwaysOne(path, i) == 1

\* weight = searchPath[i].weight
LevelWeight(path, i) == path[i].weight

\* A node with its value fields, seeded with a first-play urgency by Expand.
ValueNode(children, firstPlayUrgency) ==
    [children |-> children, childCount |-> Len(children), bestIndex |-> NoBest,
     tablebaseRankBound |-> 0, visitCount |-> 0, visitingCount |-> 0,
     terminalValue |-> NonTerminal,
     expansion |-> IF children = <<>> THEN ExpNone ELSE ExpExpanded,
     valueAverage |-> firstPlayUrgency, valueWeight |-> 0]

\* The leaves of the tree and the search path to each.
ValueLeaves == {3, 4, 5}
PathTo(leaf) == IF leaf = 3 THEN <<1, 3>> ELSE <<1, 2, leaf>>
RootValues == {25, 75}
MaxBackprops == 2

\* Leaf 4 as Expand left it, or just found to be a stalemate by the simulation's
\* ExpandAndEvaluate; leaf 5 as Expand left it, re-seeded by an earlier
\* draw-sibling FPU, or a checkmate that was sampled once.
Leaves4 ==
    {ValueNode(<<>>, FirstPlayUrgencyDefault),
     [ValueNode(<<>>, FirstPlayUrgencyDefault) EXCEPT
        !.terminalValue = Draw, !.tablebaseRankBound = BuildTablebaseRankBound(0, BOUND_EXACT)]}
Leaves5 ==
    {ValueNode(<<>>, FirstPlayUrgencyDefault),
     ValueNode(<<>>, 75),
     [ValueNode(<<>>, Scores.win) EXCEPT
        !.terminalValue = MateIn(1), !.tablebaseRankBound = BuildTablebaseRankBound(0, BOUND_LOWER),
        !.valueWeight = 1, !.visitCount = 1]}

InitBackprop ==
    /\ slot = [s \in Slots |-> NewSlot]
    /\ active = [t \in Threads |-> NoSlot]
    /\ finalized = [t \in Threads |-> FALSE]
    /\ allWorkItemsCompleted = FALSE
    /\ searchThreads \in {1, 2}
    /\ position = [moves |-> MovesA, checkers |-> {5}]
    /\ puct = NoSelection
    /\ nodeCount = 0
    /\ failedNodeCount = 0
    /\ principalVariationChanged = FALSE
    /\ started = 0
    /\ takes = [n \in Nodes |-> 0]
    /\ CacheIdle /\ alloc = NotAllocated /\ search = NoSearch /\ UnitIdle
    /\ rep = NoRep /\ sel = NoSel /\ searchGame = NoSearchGame /\ uci = NoUci
    /\ \E leaf4 \in Leaves4, leaf5 \in Leaves5 :
         tree = [n \in ValueNodes |->
                   CASE n = 1 -> ValueNode(<<2, 3>>, FirstPlayUrgencyRoot)
                     [] n = 2 -> ValueNode(<<4, 5>>, FirstPlayUrgencyRoot)
                     [] n = 3 -> ValueNode(<<>>, FirstPlayUrgencyRoot)
                     [] n = 4 -> leaf4
                     [] n = 5 -> leaf5]
    /\ backprop = [NoBackprop EXCEPT !.through = [n \in ValueNodes |-> tree[n].visitCount]]

BackpropFrame ==
    UNCHANGED <<slot, active, finalized, allWorkItemsCompleted, searchThreads, position, puct,
                nodeCount, failedNodeCount, principalVariationChanged, started, takes,
                cacheVars, alloc, timeVars, unitVars, rep, sel, searchGame, uci>>

Backpropagating(t) == backprop.call[t].pc \notin {"idle", "done"}

\* The part of RunMcts before Backpropagate: the path selected down to a leaf,
\* with a visitingCount taken on each node, the weight each child was selected
\* with, the leaf's value and the root's value from the leaf's perspective.
StartBackpropagate(t, leaf, weights, value, rootValue) ==
    LET nodes == PathTo(leaf)
    IN /\ (t = "A") \/ (searchThreads = 2)
       /\ ~Backpropagating(t)
       /\ backprop.calls < MaxBackprops
       /\ \A u \in Threads \ {t} :
             Backpropagating(u) => backprop.call[u].path[Len(backprop.call[u].path)].node # leaf
       /\ (tree[leaf].visitCount = 0) \/ IsTerminal(tree[leaf].terminalValue)
       /\ IsTerminal(tree[leaf].terminalValue)
             => value = (IF tree[leaf].terminalValue = MateIn(1) THEN Scores.win ELSE Scores.draw)
       /\ weights[1] = 1
       /\ \A i \in 1..3 : i > Len(nodes) => weights[i] = 1
       /\ tree' = [n \in ValueNodes |->
                     IF n \in Range(nodes) THEN [tree[n] EXCEPT !.visitingCount = @ + 1]
                     ELSE tree[n]]
       /\ backprop' = [backprop EXCEPT
                         !.calls = @ + 1,
                         !.through = [n \in ValueNodes |->
                                        IF n \in Range(nodes) THEN @[n] + 1 ELSE @[n]],
                         !.call[t] = [NoBackpropagate EXCEPT
                                        !.pc = "level",
                                        !.path = [i \in 1..Len(nodes) |->
                                                    [node |-> nodes[i], weight |-> weights[i]]],
                                        !.value = value, !.rootValue = rootValue,
                                        !.i = Len(nodes),
                                        !.visited = [i \in 1..Len(nodes) |-> 0]]]
       /\ BackpropFrame

\* The end of one iteration of Backpropagate's loop.
NextLevel(c, weight) ==
    [c EXCEPT !.weight = weight, !.value = FlipValue(c.value), !.i = c.i - 1, !.k = 0,
              !.pc = IF c.i - 1 = 0 THEN "done" ELSE "level"]

\* The top of the loop of Backpropagate: with weight 0 the rest of the path goes
\* to BackpropagateVisitsOnly; else the node is visited, the value bounded and
\* SampleValue adds one to valueWeight.
BackpropagateLevel(t) ==
    LET c == backprop.call[t]
        node == c.path[c.i].node
    IN /\ c.pc = "level"
       /\ IF c.weight = 0
          THEN /\ tree' = [n \in ValueNodes |->
                             IF \E j \in 1..c.i : c.path[j].node = n
                             THEN [tree[n] EXCEPT !.visitingCount = @ - 1, !.visitCount = @ + 1]
                             ELSE tree[n]]
               /\ backprop' = [backprop EXCEPT
                                 !.call[t].pc = "done",
                                 !.call[t].visited = [j \in 1..Len(c.path) |->
                                                        IF j <= c.i THEN @[j] + 1 ELSE @[j]]]
          ELSE /\ tree' = [tree EXCEPT ![node].visitingCount = @ - 1,
                                       ![node].visitCount = @ + 1,
                                       ![node].valueWeight = @ + 1]
               /\ backprop' = [backprop EXCEPT
                                 !.call[t].pc = "average",
                                 !.call[t].value = BoundedValue(tree, node, c.value),
                                 !.call[t].newWeight = tree[node].valueWeight + 1,
                                 !.call[t].visited[c.i] = @ + 1,
                                 !.call[t].sampled = @ \cup {c.i}]
       /\ BackpropFrame

\* After the last sibling: the draw is forgiven.
NextSibling(c) ==
    IF c.k < Len(tree[c.path[c.i - 1].node].children)
    THEN [c EXCEPT !.pc = "sibling", !.k = c.k + 1]
    ELSE NextLevel(c, 0)

\* The store of SampleValue's average, the weight of the level, and the test
\* for draw-sibling FPU.
BackpropagateAverage(t) ==
    LET c == backprop.call[t]
        node == c.path[c.i].node
        weight == LevelWeight(c.path, c.i)
    IN /\ c.pc = "average"
       /\ tree' = [tree EXCEPT ![node].valueAverage = MovingAverage(@, c.value, c.newWeight)]
       /\ backprop' = [backprop EXCEPT
                         !.call[t] =
                            IF c.newWeight = 1 /\ c.value = Scores.draw
                               /\ c.i = Len(c.path) /\ c.i > 1
                            THEN [c EXCEPT !.pc = "sibling", !.k = 1, !.weight = weight,
                                           !.forgave = TRUE]
                            ELSE NextLevel(c, weight)]
       /\ BackpropFrame

\* child.valueWeight.load() == 0 for one child of the leaf's parent.
SiblingLoad(t) ==
    LET c == backprop.call[t]
        child == tree[c.path[c.i - 1].node].children[c.k]
    IN /\ c.pc = "sibling"
       /\ backprop' = [backprop EXCEPT
                         !.call[t] = IF tree[child].valueWeight = 0
                                     THEN [c EXCEPT !.pc = "cas"]
                                     ELSE NextSibling(c)]
       /\ UNCHANGED tree
       /\ BackpropFrame

\* child.valueAverage.compare_exchange_strong(default FPU, rootValue)
SiblingCompareExchange(t) ==
    LET c == backprop.call[t]
        child == tree[c.path[c.i - 1].node].children[c.k]
    IN /\ c.pc = "cas"
       /\ tree' = IF tree[child].valueAverage = FirstPlayUrgencyDefault
                  THEN [tree EXCEPT ![child].valueAverage = c.rootValue]
                  ELSE tree
       /\ backprop' = [backprop EXCEPT !.call[t] = NextSibling(c)]
       /\ BackpropFrame

NextBackprop ==
    \/ \E t \in Threads, leaf \in ValueLeaves, weights \in [1..3 -> {0, 1}],
          value \in {Scores.loss, Scores.draw, Scores.win}, rootValue \in RootValues :
         StartBackpropagate(t, leaf, weights, value, rootValue)
    \/ \E t \in Threads : BackpropagateLevel(t)
    \/ \E t \in Threads : BackpropagateAverage(t)
    \/ \E t \in Threads : SiblingLoad(t)
    \/ \E t \in Threads : SiblingCompareExchange(t)

SpecBackprop == InitBackprop /\ [][NextBackprop]_vars

\* C29: every node counts the calls made through it once, as a visit in flight
\* or a visit made; a finished Backpropagate has visited every node of its path
\* exactly once, and has sampled path[i] exactly when every node below it was
\* selected with weight 1 and, above the leaf, the leaf's draw was not forgiven.
C29_SelectiveBackpropagation ==
    /\ \A n \in ValueNodes : tree[n].visitCount + tree[n].visitingCount = backprop.through[n]
    /\ (\A t \in Threads : ~Backpropagating(t)) => \A n \in ValueNodes : tree[n].visitingCount = 0
    /\ \A t \in Threads :
          LET c == backprop.call[t]
          IN c.pc = "done" =>
                \A i \in 1..Len(c.path) :
                    /\ c.visited[i] = 1
                    /\ (i \in c.sampled) <=>
                          /\ \A j \in (i + 1)..Len(c.path) : c.path[j].weight = 1
                          /\ (i = Len(c.path)) \/ ~c.forgave

\* A path of three nodes whose leaf was selected with weight 0: the leaf was
\* sampled, the nodes above it were only visited.
C29_Witness ==
    \E t \in Threads :
        LET c == backprop.call[t]
        IN /\ c.pc = "done"
           /\ Len(c.path) = 3
           /\ c.path[3].weight = 0
           /\ ~c.forgave
           /\ c.sampled = {3}
           /\ tree[c.path[2].node].valueWeight = 0
           /\ tree[c.path[2].node].visitCount = 1


\* The sibling that a call at its compare-exchange is about to write.
CasSibling(c) == tree[c.path[c.i - 1].node].children[c.k]

\* A step of the sibling loop of a call leaves a sibling with valueWeight > 0 or
\* with a valueAverage other than the default FPU as it is, and gives a sibling
\* with valueWeight = 0 and the default FPU the root value.
C30_Step ==
    \A t \in Threads :
        LET c == backprop.call[t]
        IN /\ (c.pc = "sibling" /\ backprop'.call[t] # c) => tree' = tree
           /\ (c.pc = "cas" /\ backprop'.call[t] # c) =>
                 LET s == CasSibling(c)
                 IN /\ (tree[s].valueWeight = 0 /\ tree[s].valueAverage = FirstPlayUrgencyDefault)
                          => tree' = [tree EXCEPT ![s].valueAverage = c.rootValue]
                    /\ (tree[s].valueWeight > 0 \/ tree[s].valueAverage # FirstPlayUrgencyDefault)
                          => tree' = tree

\* A call that forgave a draw sampled its leaf only.
C30_AncestorsVisitedOnly ==
    \A t \in Threads :
        LET c == backprop.call[t]
        IN c.forgave => c.sampled = {Len(c.path)}

\* C30 as stated: when the leaf of a path of two or more nodes gets an exact
\* draw as its first sample, each sibling with valueWeight = 0 and the default
\* FPU as valueAverage is set to the root value, every sibling with
\* valueWeight > 0 or another valueAverage is left unchanged, and the nodes above
\* the leaf get the visit only.
C30_DrawSiblingFpu == [](C30_AncestorsVisitedOnly) /\ [][C30_Step]_vars

\* The first sample of a sibling, an exact loss, was overwritten with the root
\* value by the draw-sibling FPU of another thread.
C30_SampleOverwritten ==
    \E t \in Threads :
        LET c == backprop.call[t]
        IN /\ c.pc = "done"
           /\ c.forgave
           /\ \E u \in Threads \ {t} :
                 LET d == backprop.call[u]
                     s == d.path[Len(d.path)].node
                 IN /\ d.pc = "done"
                    /\ Len(d.path) = 3 /\ Len(c.path) = 3
                    /\ s # c.path[3].node
                    /\ Len(d.path) \in d.sampled
                    /\ tree[s].valueWeight = 1
                    /\ tree[s].valueAverage = c.rootValue


\* ------------------------------------------------- proving mates, one thread

\* A position whose tree is deep enough for a mate in three: the legal moves of
\* each node, and the leaves, each of which is a checkmate or a stalemate.
MateNodes == 1..11
MateMoves ==
    [n \in MateNodes |-> CASE n = 1 -> <<2>>
                           [] n = 2 -> <<3, 4>>
                           [] n = 3 -> <<5, 6>>
                           [] n = 4 -> <<7>>
                           [] n = 5 -> <<8>>
                           [] n = 7 -> <<9>>
                           [] n = 8 -> <<10>>
                           [] n = 9 -> <<11>>
                           [] OTHER -> <<>>]
MateLeaves == {6, 10, 11}
MateParent(n) == CHOOSE p \in MateNodes : \E k \in 1..Len(MateMoves[p]) : MateMoves[p][k] = n

RECURSIVE MatePath(_)
MatePath(n) == IF n = 1 THEN <<1>> ELSE Append(MatePath(MateParent(n)), n)

\* Cap on the simulations of the search.
MaxMateSims == 12

\* A variant of BackpropagateMate that proves the leaf's parent only.
BackpropagateMateOneLevel(t, searchPath, i, childIsMate) ==
    IF i < 1 THEN [tree |-> t, changed |-> FALSE, levels |-> 0]
    ELSE LET level == BackpropagateMateLevel(t, searchPath, i, childIsMate, t[searchPath[i]].terminalValue)
         IN [tree |-> level.tree, changed |-> level.changed, levels |-> 1]

\* SelfPlayWorker::BackpropagateMate, the loop from index i down to the root:
\* the tree, whether FixPrincipalVariation raised the flag, and the levels entered.
RECURSIVE BackpropagateMate(_, _, _, _)
BackpropagateMate(t, searchPath, i, childIsMate) ==
    IF i < 1 THEN [tree |-> t, changed |-> FALSE, levels |-> 0]
    ELSE LET level == BackpropagateMateLevel(t, searchPath, i, childIsMate, t[searchPath[i]].terminalValue)
         IN IF level.continue
            THEN LET rest == BackpropagateMate(level.tree, searchPath, i - 1, ~childIsMate)
                 IN [tree |-> rest.tree, changed |-> level.changed \/ rest.changed,
                     levels |-> rest.levels + 1]
            ELSE [tree |-> level.tree, changed |-> level.changed, levels |-> 1]

\* SelfPlayWorker::UpdatePrincipalVariation: the tree and whether the flag is raised.
UpdatePrincipalVariation(t, searchPath) ==
    LET step[i \in 0..(Len(searchPath) - 1)] ==
            IF i = 0 THEN [tree |-> t, isPrincipalVariation |-> TRUE, changed |-> FALSE]
            ELSE LET prev == step[i - 1]
                 IN IF WorseThan(prev.tree, BestChild(prev.tree, searchPath[i]), searchPath[i + 1])
                    THEN [tree |-> SetBestChild(prev.tree, searchPath[i], searchPath[i + 1]),
                          isPrincipalVariation |-> prev.isPrincipalVariation,
                          changed |-> prev.changed \/ prev.isPrincipalVariation]
                    ELSE [tree |-> prev.tree,
                          isPrincipalVariation |->
                              prev.isPrincipalVariation
                              /\ (BestChild(prev.tree, searchPath[i]) = searchPath[i + 1]),
                          changed |-> prev.changed]
    IN step[Len(searchPath) - 1]

InitMate ==
    /\ tree = [n \in MateNodes |-> NewNode]
    /\ slot = [s \in Slots |-> NewSlot]
    /\ active = [t \in Threads |-> NoSlot]
    /\ finalized = [t \in Threads |-> FALSE]
    /\ allWorkItemsCompleted = FALSE
    /\ searchThreads = 1
    /\ \E mated \in SUBSET MateLeaves : position = [moves |-> MateMoves, checkers |-> mated]
    /\ puct = NoSelection
    /\ nodeCount = 0
    /\ failedNodeCount = 0
    /\ principalVariationChanged = FALSE
    /\ started = 0
    /\ takes = [n \in Nodes |-> 0]
    /\ CacheIdle /\ alloc = NotAllocated /\ search = NoSearch /\ ExtraIdle /\ UnitIdle

\* One pass of RunMcts in a search with one thread and one game, whose
\* prediction is at hand: the path down to a node that is not expanded, the
\* leaf's evaluation, the visits, the mate proof and the principal variation.
MateSimulation(leaf) ==
    /\ mate.simulations < MaxMateSims
    /\ tree[leaf].expansion # ExpExpanded
    /\ \A n \in Range(MatePath(leaf)) \ {leaf} : tree[n].expansion = ExpExpanded
    /\ LET searchPath == MatePath(leaf)
           wasImmediateMate == tree[leaf].terminalValue = MateIn(1)
           evaluated ==
               IF IsImmediate(tree[leaf].terminalValue) THEN tree
               ELSE IF LegalMoves[leaf] = <<>>
                    THEN SetTerminalValue(tree, leaf, IF leaf \in checkers THEN MateIn(1) ELSE Draw)
                    ELSE [Expand(tree, leaf) EXCEPT ![leaf].expansion = ExpExpanded]
           visited == [n \in MateNodes |-> IF n \in Range(searchPath)
                                           THEN [evaluated[n] EXCEPT !.visitCount = @ + 1]
                                           ELSE evaluated[n]]
           prove == (~wasImmediateMate) /\ IsMateInN(visited[leaf].terminalValue)
           proved == IF prove THEN BackpropagateMate(visited, searchPath, Len(searchPath) - 1, TRUE)
                     ELSE [tree |-> visited, changed |-> FALSE, levels |-> 0]
           updated == UpdatePrincipalVariation(proved.tree, searchPath)
           isSearchRoot == leaf = 1
       IN /\ tree' = IF isSearchRoot THEN [updated.tree EXCEPT ![leaf].visitCount = 1]
                                     ELSE updated.tree
          /\ principalVariationChanged' = (principalVariationChanged \/ proved.changed \/ updated.changed)
          /\ nodeCount' = nodeCount + 1
          /\ mate' = [path |-> searchPath,
                      before |-> [n \in MateNodes |-> visited[n].terminalValue],
                      proved |-> prove, levels |-> proved.levels,
                      simulations |-> mate.simulations + 1]
    /\ UNCHANGED <<slot, active, finalized, allWorkItemsCompleted, searchThreads, position, puct,
                   failedNodeCount, started, takes, cacheVars, alloc, timeVars, extraVars,
                   mateOthers>>

NextMate == \E leaf \in MateNodes : MateSimulation(leaf)

SpecMate == InitMate /\ [][NextMate]_vars

ChildValues(n) == {tree[tree[n].children[k]].terminalValue : k \in 1..Len(tree[n].children)}
Smallest(S) == CHOOSE x \in S : \A y \in S : x <= y
Largest(S) == CHOOSE x \in S : \A y \in S : x >= y

\* The two rules of mate values hold at node n.
MateConsistent(n) ==
    LET value == tree[n].terminalValue
        mates == {v \in ChildValues(n) : IsMateInN(v)}
    IN /\ IsOpponentMateInN(value) <=> (mates # {})
       /\ IsOpponentMateInN(value) => OpponentMateN(value) = Smallest({MateN(v) : v \in mates})
       /\ IsMateInN(value) <=> (\A v \in ChildValues(n) : IsOpponentMateInN(v))
       /\ IsMateInN(value) =>
             MateN(value) = Largest({OpponentMateN(v) : v \in ChildValues(n)}) + 1

MateChanged(i) == tree[mate.path[i]].terminalValue # mate.before[mate.path[i]]

\* C31: in a search with one thread, after BackpropagateMate has returned,
\* every expanded node of the search path is OpponentMateIn(n) exactly when a
\* child is MateIn, n being the smallest MateN of its children, and is MateIn(k)
\* exactly when every child is OpponentMateIn, k being the largest OpponentMateN
\* of its children plus one; and above the first level whose parent the call
\* left as it was, no node of the path has changed.
C31_MateValuesConsistent ==
    mate.proved =>
        /\ \A n \in Range(mate.path) : IsExpanded(tree, n) => MateConsistent(n)
        /\ \A i \in 1..(Len(mate.path) - 1) :
              ~MateChanged(i) => \A j \in 1..i : ~MateChanged(j)

\* A faster mate below node 3 made it OpponentMateIn(1) from OpponentMateIn(2),
\* the sweep of the children of node 2 left it MateIn(3), and the root above it
\* stayed OpponentMateIn(3).
C31_Witness ==
    /\ mate.proved
    /\ mate.path = <<1, 2, 3, 6>>
    /\ mate.before[3] = OpponentMateIn(2) /\ tree[3].terminalValue = OpponentMateIn(1)
    /\ mate.before[2] = MateIn(3) /\ tree[2].terminalValue = MateIn(3)
    /\ mate.before[1] = OpponentMateIn(3) /\ tree[1].terminalValue = OpponentMateIn(3)
    /\ mate.levels = 3


\* ------------------------------------------- the prediction cache in expansion

\* Two games (worker slots) expand two leaves they share: leaf 1 is the search
\* root, leaf 2 a node below it.
ExpandGames == {"g1", "g2"}
ExpandLeaves == {1, 2}
SearchRootLeaf == 1
NoGame == "none"

\* Cap on the ExpandAndEvaluate calls of a behaviour.
MaxExpandCalls == 5

\* The legal move counts of a leaf, around PredictionCacheEntry::MaxMoveCount.
LeafMoveCounts == {2, MaxMoveCount, MaxMoveCount + 1}

\* The priors the network gives a leaf, quantized: the softmax of equal logits.
NetworkPriors(moveCount) == [m \in 1..moveCount |-> QuantizeProbabilityNoZero(1, moveCount)]

\* A variant that probes whatever the number of legal moves.
ShouldProbeAnyMoveCount(generateUniformPredictions, workingMoveCount, tryHard, ply, maxPly) ==
    (~generateUniformPredictions) /\ (tryHard \/ (ply <= maxPly))

\* The condition of ExpandAndEvaluate for probing the cache.
ShouldProbe(generateUniformPredictions, workingMoveCount, tryHard, ply, maxPly) ==
    /\ ~generateUniformPredictions
    /\ workingMoveCount <= MaxMoveCount
    /\ tryHard \/ (ply <= maxPly)

\* The "searchmoves" filter of FinishExpanding: the priors of the allowed moves,
\* moved to the front and normalized again.
FilterSearchMoves(quantizedPriors, moveCount, searchMoves) ==
    LET allowed == {i \in 1..moveCount : i \in searchMoves}
        kept == SelectSeq([i \in 1..moveCount |-> i], LAMBDA i : i \in allowed)
        filteredSum == SumTo([k \in 1..Len(kept) |-> quantizedPriors[kept[k]]], Len(kept))
        desiredSum == QuantizeProbabilityNoZero(1, 1)
    IN [k \in 1..Len(kept) |-> ((quantizedPriors[kept[k]] * desiredSum) \div filteredSum) % 65536]

NoLeafLog ==
    [owner |-> NoGame, probedBy |-> {}, probeAllowed |-> TRUE, hits |-> 0, misses |-> 0,
     puts |-> 0, putKey |-> 0, putMoveCount |-> 0, putPriors |-> <<>>]

NewExpandGame ==
    [state |-> Working, leaf |-> 0, cacheStore |-> 0, imageKey |-> 0, quantizedPriors |-> <<>>,
     value |-> NaN]

InitExpand ==
    /\ SearchIdle /\ CacheIdle /\ alloc = NotAllocated /\ search = NoSearch
    /\ ExtraIdle
    /\ expandOthersIdle
    /\ \E tryHard \in BOOLEAN, generateUniformPredictions \in BOOLEAN, allocated \in BOOLEAN,
          ply \in {0, 1}, maxPly \in {1}, searchMoves \in {{}, {2}},
          moveCount \in [ExpandLeaves -> LeafMoveCounts] :
         expand = [config |-> [tryHard |-> tryHard,
                               generateUniformPredictions |-> generateUniformPredictions,
                               allocated |-> allocated, ply |-> ply, maxPly |-> maxPly,
                               searchMoves |-> searchMoves, moveCount |-> moveCount],
                   leaf |-> [l \in ExpandLeaves |->
                               [expansion |-> ExpNone, childPriors |-> <<>>, log |-> NoLeafLog]],
                   game |-> [g \in ExpandGames |-> NewExpandGame],
                   calls |-> 0]

ExpandFrame == UNCHANGED <<searchVars, cacheVars, alloc, timeVars, extraVars, expandOthers>>

\* SelfPlayGame::FinishExpanding of game g on leaf l with the priors given: the
\* Put through cacheStore, the filter at the search root, Expand, and RunMcts's
\* store of Expanded.
FinishExpandingOf(e, g, l, quantizedPriors) ==
    LET config == e.config
        moveCount == config.moveCount[l]
        cacheStore == e.game[g].cacheStore
        isSearchRoot == l = SearchRootLeaf
        put == IF cacheStore # 0
               THEN [e EXCEPT !.leaf[cacheStore].log.puts = @ + 1,
                              !.leaf[cacheStore].log.putKey = e.game[g].imageKey,
                              !.leaf[cacheStore].log.putMoveCount = moveCount,
                              !.leaf[cacheStore].log.putPriors = quantizedPriors]
               ELSE e
        filtered == IF isSearchRoot /\ config.searchMoves # {}
                    THEN FilterSearchMoves(quantizedPriors, moveCount, config.searchMoves)
                    ELSE quantizedPriors
    IN [put EXCEPT !.leaf[l].childPriors = filtered,
                   !.leaf[l].expansion = ExpExpanded,
                   !.game[g].quantizedPriors = filtered,
                   !.game[g].state = Working,
                   !.game[g].value = ValueNet]

\* The leaf a game's next search path ends at.
NextLeaf == IF expand.leaf[SearchRootLeaf].expansion # ExpExpanded THEN SearchRootLeaf ELSE 2

\* SelfPlayGame::ExpandAndEvaluate called with state Working on a leaf that has
\* legal moves and is no draw; "hit" is what the cache's chunk answers.
ExpandAndEvaluateWorking(g, hit) ==
    /\ expand.calls < MaxExpandCalls
    /\ expand.game[g].state = Working
    /\ expand.leaf[NextLeaf].expansion # ExpExpanded
    /\ LET l == NextLeaf
           config == expand.config
           workingMoveCount == config.moveCount[l]
           ply == config.ply + (l - SearchRootLeaf)
           called == [expand EXCEPT !.calls = @ + 1, !.game[g].leaf = l]
       IN IF expand.leaf[l].expansion # ExpNone
          THEN \* TakeExpansionOwnership fails
               expand' = [called EXCEPT !.game[g].value = NaN]
          ELSE LET owned == [called EXCEPT !.leaf[l].expansion = ExpExpanding,
                                           !.leaf[l].log.owner = g,
                                           !.game[g].cacheStore = 0]
                   probes == ShouldProbe(config.generateUniformPredictions, workingMoveCount,
                                         config.tryHard, ply, config.maxPly)
                   keyed == IF probes
                            THEN [owned EXCEPT !.game[g].imageKey = l,
                                               !.leaf[l].log.probedBy = @ \cup {g},
                                               !.leaf[l].log.probeAllowed =
                                                   @ /\ (workingMoveCount <= MaxMoveCount)
                                                     /\ (config.tryHard \/ ply <= config.maxPly)]
                            ELSE owned
                   hitCached == probes /\ config.allocated /\ hit
                   probed == IF ~probes \/ ~config.allocated THEN keyed
                             ELSE IF hit
                                  THEN [keyed EXCEPT !.leaf[l].log.hits = @ + 1,
                                                     !.game[g].quantizedPriors =
                                                         NetworkPriors(workingMoveCount)]
                                  ELSE [keyed EXCEPT !.leaf[l].log.misses = @ + 1,
                                                     !.game[g].cacheStore = l]
               IN IF hitCached
                  THEN expand' = FinishExpandingOf(probed, g, l, probed.game[g].quantizedPriors)
                  ELSE IF ~config.generateUniformPredictions
                       THEN expand' = [probed EXCEPT !.game[g].state = WaitingForPrediction,
                                                     !.game[g].value = NaN]
                       ELSE expand' = FinishExpandingOf(probed, g, l, NetworkPriors(workingMoveCount))
    /\ ExpandFrame

\* ExpandAndEvaluate called again with state WaitingForPrediction, the
\* network's prediction at hand.
ExpandAndEvaluateWaiting(g) ==
    /\ expand.game[g].state = WaitingForPrediction
    /\ LET l == expand.game[g].leaf
       IN expand' = FinishExpandingOf(expand, g, l, NetworkPriors(expand.config.moveCount[l]))
    /\ ExpandFrame

\* The search is stopped and another begins, on the same tree or on a new one.
\* FinalizeMcts gives up the ownership of the leaves on the games' search paths,
\* and SearchInitialize clears every game: state Working, cacheStore null.
SearchRestart(keepTree) ==
    /\ expand.calls < MaxExpandCalls
    /\ expand.calls > 0
    /\ expand' = [expand EXCEPT
           !.calls = @ + 1,
           !.game = [g \in ExpandGames |->
                       [expand.game[g] EXCEPT !.state = Working, !.cacheStore = 0, !.leaf = 0]],
           !.leaf = [l \in ExpandLeaves |->
                       IF keepTree /\ expand.leaf[l].expansion = ExpExpanded
                       THEN expand.leaf[l]
                       ELSE [expansion |-> ExpNone, childPriors |-> <<>>, log |-> NoLeafLog]]]
    /\ ExpandFrame

NextExpand ==
    \/ \E g \in ExpandGames, hit \in BOOLEAN : ExpandAndEvaluateWorking(g, hit)
    \/ \E g \in ExpandGames : ExpandAndEvaluateWaiting(g)
    \/ \E keepTree \in BOOLEAN : SearchRestart(keepTree)

SpecExpand == InitExpand /\ [][NextExpand]_vars

\* C32: the cache is probed only by the game that owns the leaf's expansion and
\* only when the leaf has at most 56 legal moves and the game searches or the
\* ply is within the configured cap; a Put is made only for a leaf whose probe
\* missed, once at most, never after a hit and never for a leaf not probed; and
\* it stores the priors as evaluated, all of them, which at the search root are
\* the priors before the searchmoves filter.
C32_CacheProtocol ==
    \A l \in ExpandLeaves :
        LET log == expand.leaf[l].log
            moveCount == expand.config.moveCount[l]
        IN /\ log.probedBy \subseteq {log.owner}
           /\ log.probeAllowed
           /\ log.probedBy # {} =>
                 /\ moveCount <= 56
                 /\ expand.config.tryHard \/ (expand.config.ply + (l - SearchRootLeaf) <= expand.config.maxPly)
           /\ log.puts <= log.misses
           /\ log.puts <= 1
           /\ log.hits > 0 => log.puts = 0
           /\ log.probedBy = {} => log.puts = 0
           /\ log.puts > 0 =>
                 /\ log.putKey = l
                 /\ log.putMoveCount = moveCount
                 /\ log.putPriors = NetworkPriors(moveCount)

\* The search root's probe missed, its prediction was put with the priors of
\* both moves, and its children got the filtered priors of the one move allowed.
C32_Witness ==
    LET root == expand.leaf[SearchRootLeaf]
    IN /\ root.log.puts = 1
       /\ root.log.misses = 1
       /\ expand.config.searchMoves = {2}
       /\ Len(root.log.putPriors) = 2
       /\ Len(root.childPriors) = 1
       /\ root.childPriors # root.log.putPriors


\* --------------------------------------------- one chunk, from Clear to eviction

\* Keys that all address one chunk; key 0 is the key of an empty entry.
ChunkKey(n) == [table |-> 0, high |-> n, low |-> n]
TheChunk == ChunkOf(ChunkKey(1), TwoTables)

\* Cap on the calls made on the chunk after it was filled.
MaxChunkOps == 6

ChunkMoveCount == 2

\* The keys in play: those stored in the chunk or waiting to be put.  Keys are
\* compared for equality only, so a key not in play yet is taken to be the next
\* number.
KeysInPlay == {chunks[TheChunk][i].key.high : i \in 1..EntryCount} \cup {p.key.high : p \in pending}
FreshKey == Largest(KeysInPlay) + 1
ProbeKeys == {ChunkKey(n) : n \in {0, 1, FreshKey}}

\* The games of the one thread that uses the cache; each has a cacheStore.
ChunkGames == {1, 2}

HoldsKey(chunk, key) == \E j \in 1..EntryCount : chunk[j].key = key

\* A cleared chunk after the predictions of keys 1..n were probed, missed
\* and put, one after the other.
RECURSIVE FilledChunk(_, _)
FilledChunk(chunk, n) ==
    IF n = 0 THEN chunk
    ELSE LET probed == ChunkTryGet(FilledChunk(chunk, n - 1), ChunkKey(n), ChunkMoveCount).chunk
         IN ChunkPut(probed, ChunkKey(n), 25, ChunkMoveCount, Uniform(ChunkMoveCount)).chunk

\* The cache after Allocate and Clear and, in one chunk, the predictions of up
\* to eight keys.
InitChunk ==
    /\ SearchIdle
    /\ \E fill \in Fills, n \in 0..EntryCount :
          /\ chunks = [a \in Addresses |->
                         IF a = TheChunk THEN FilledChunk(ChunkClear(FreshChunk(fill)), n)
                                         ELSE ChunkClear(FreshChunk(fill))]
          /\ metrics = [NoMetrics EXCEPT !.probeCount = n, !.entryCount = n]
    /\ tables = TwoTables
    /\ pending = {}
    /\ history = <<>>
    /\ RaceIdle
    /\ alloc = AllocatedAs(tables)
    /\ search = NoSearch /\ ExtraIdle /\ UnitIdle

ChunkFrame == UNCHANGED <<tables, raceVars, nonCacheVars>> /\ UNCHANGED searchVars

\* PredictionCache::TryGetPrediction of a key of the chunk.
ChunkProbe(game, key) ==
    /\ Len(history) < MaxChunkOps
    /\ \A p \in pending : p.game # game
    /\ LET got == ChunkTryGet(chunks[TheChunk], key, ChunkMoveCount)
       IN /\ chunks' = [chunks EXCEPT ![TheChunk] = got.chunk]
          /\ metrics' = [metrics EXCEPT !.probeCount = @ + 1,
                                        !.hitCount = IF got.hit THEN @ + 1 ELSE @]
          /\ pending' = IF got.hit THEN pending
                        ELSE pending \cup {[chunk |-> TheChunk, key |-> key,
                                            moveCount |-> ChunkMoveCount, game |-> game]}
          /\ history' = Record(Call("TryGetPrediction", key, ChunkMoveCount, got.value,
                                    got.priors, got.hit, IF got.hit THEN NoChunk ELSE TheChunk,
                                    got.index, chunks[TheChunk]))
    /\ ChunkFrame

\* cacheStore->Put of a prediction whose probe missed.
ChunkStore(store, value, priors) ==
    /\ store \in pending
    /\ LET put == ChunkPut(chunks[store.chunk], store.key, value, store.moveCount, priors)
       IN /\ chunks' = [chunks EXCEPT ![store.chunk] = put.chunk]
          /\ metrics' = IF put.evicted
                        THEN [metrics EXCEPT !.evictionCount = @ + 1]
                        ELSE [metrics EXCEPT !.entryCount = @ + 1]
          /\ pending' = pending \ {store}
          /\ history' = Record(Call("Put", store.key, store.moveCount, value, priors, FALSE,
                                    store.chunk, put.index, chunks[store.chunk]))
    /\ ChunkFrame

NextChunk ==
    \/ \E game \in ChunkGames, key \in ProbeKeys : ChunkProbe(game, key)
    \/ \E store \in pending :
          IF HoldsKey(chunks[store.chunk], store.key)
          THEN ChunkStore(store, 75, Peaked(ChunkMoveCount))
          ELSE ChunkStore(store, 25, Uniform(ChunkMoveCount))

SpecChunk == InitChunk /\ [][NextChunk]_vars

ChunkPuts == history' # history /\ history'[Len(history')].op = "Put"

\* C33: Put writes the entry that holds the key if there is one, else an entry
\* whose age is the largest of the eight; the entry written gets the key, the
\* value, the priors and age INT_MIN; entryCount grows by one when the entry
\* replaced had key 0 and evictionCount when it had another key; and no other
\* entry's key, value, priors or age changes.
C33_Step ==
    ChunkPuts =>
        LET call == history'[Len(history')]
            before == chunks[call.chunk]
            after == chunks'[call.chunk]
            i == call.index
            total == SumTo(call.priors, call.moveCount)
        IN /\ IF HoldsKey(before, call.key)
              THEN before[i].key = call.key
              ELSE \A j \in 1..EntryCount : before[j].age <= before[i].age
           /\ after[i].key = call.key
           /\ after[i].value = call.value
           /\ after[i].age = IntMin
           /\ \A m \in 1..call.moveCount :
                 after[i].policyPriors[m] = QuantizeProbabilityNoZero(call.priors[m], total)
           /\ IF before[i].key = ZeroKey
              THEN /\ metrics'.entryCount = metrics.entryCount + 1
                   /\ metrics'.evictionCount = metrics.evictionCount
              ELSE /\ metrics'.evictionCount = metrics.evictionCount + 1
                   /\ metrics'.entryCount = metrics.entryCount
           /\ \A j \in (1..EntryCount) \ {i} :
                 /\ after[j].key = before[j].key
                 /\ after[j].value = before[j].value
                 /\ after[j].policyPriors = before[j].policyPriors
                 /\ after[j].age = before[j].age

C33_PutWritesOneEntry == [][C33_Step]_vars

\* The chunk held eight other keys, the first of them freshened by a hit, and
\* the Put replaced the second entry, the oldest, and counted an eviction.
C33_Witness ==
    /\ history # <<>>
    /\ LastCall.op = "Put"
    /\ ~HoldsKey(LastCall.before, LastCall.key)
    /\ \A j \in 1..EntryCount : LastCall.before[j].key # ZeroKey
    /\ LastCall.index = 2
    /\ metrics.evictionCount = 1
    /\ metrics.entryCount = EntryCount


\* An entry that no Put has written since Clear, and one that a Put has written.
EmptySlot(entry) == entry.moveCount = 0
WrittenSlot(entry) == entry.moveCount > 0

EmptyOlderThanWritten(chunk) ==
    \A j, k \in 1..EntryCount :
        (EmptySlot(chunk[j]) /\ WrittenSlot(chunk[k])) => chunk[j].age > chunk[k].age

NoKeyTwice(chunk) ==
    \A j, k \in 1..EntryCount :
        (j # k /\ chunk[j].key # ZeroKey) => chunk[j].key # chunk[k].key

\* A Put of a key the chunk does not hold, on a chunk with an empty slot, writes
\* an empty slot.
PutKeepsStored ==
    ChunkPuts =>
        LET call == history'[Len(history')]
            before == chunks[call.chunk]
        IN (~HoldsKey(before, call.key) /\ \E j \in 1..EntryCount : EmptySlot(before[j]))
              => EmptySlot(before[call.index])

\* C38 as stated: with one thread and a cleared cache, empty slots are always
\* older than written ones, so a Put of a new key evicts no stored entry while
\* the chunk has an empty slot, and no chunk holds a non-zero key twice.
C38_EmptySlotsFirst ==
    /\ [](EmptyOlderThanWritten(chunks[TheChunk]) /\ NoKeyTwice(chunks[TheChunk]))
    /\ [][PutKeepsStored]_vars


\* Every probe and Put of the chunk's history used a non-zero key. A probe of
\* the zero key matches an entry nothing was written to.
NoZeroKeyUsed == \A i \in 1..Len(history) : history[i].key # ZeroKey

\* C38, amended: while no probe or Put uses the zero key, empty slots are older
\* than written ones, a Put of a new key on a chunk with an empty slot writes an
\* empty slot, and the chunk holds no non-zero key twice.
C38_NonZeroKeysEmptySlotsFirst ==
    /\ [](NoZeroKeyUsed =>
             (EmptyOlderThanWritten(chunks[TheChunk]) /\ NoKeyTwice(chunks[TheChunk])))
    /\ [][NoZeroKeyUsed' => PutKeepsStored]_vars

\* The eighth distinct key was just put into the last empty slot: the chunk
\* holds eight keys and nothing has been evicted.
C38_Witness ==
    /\ NoZeroKeyUsed
    /\ Len(history) > 0
    /\ history[Len(history)].op = "Put"
    /\ EmptySlot(history[Len(history)].before[history[Len(history)].index])
    /\ \A j \in 1..EntryCount : WrittenSlot(chunks[TheChunk][j])
    /\ Cardinality({chunks[TheChunk][j].key : j \in 1..EntryCount}) = EntryCount
    /\ metrics.evictionCount = 0

\* A hit on the zero key freshened an empty slot, and the next new key then
\* replaced a stored entry although that slot was still empty.
C38_StoredEvictedBeforeEmpty ==
    /\ Len(history) > 0
    /\ history[Len(history)].op = "Put"
    /\ LET call == history[Len(history)]
       IN /\ ~HoldsKey(call.before, call.key)
          /\ WrittenSlot(call.before[call.index])
          /\ \E j \in 1..EntryCount : EmptySlot(call.before[j])


\* ------------------------------------------- demoting a forced loss, threads
\* Threads of one search prove the same node lost (BackpropagateMate stores
\* OpponentMateIn) and run Node::SetTerminalValue on it at the same time. Each
\* atomic operation of the call is one step; the division of the non-atomic
\* quantizedPrior is a load and a store.

DemoteThreads == 1..3
DemotedNode == 1
MaxDemoteCalls == 4
DemoteMateNs == {1, 2}
DemotePriors == {0, 999, 1000, 65535}
LossRank == 5

\* The condition of the demotion as if every loss bound demoted.
DemotesAlways(previousBound, bound) == bound = BOUND_UPPER

\* The condition under which SetTablebaseRankBound divides the prior.
Demotes(previousBound, bound) == previousBound # BOUND_UPPER /\ bound = BOUND_UPPER

\* Node::SetTerminalValue's bound for a terminal value.
TerminalBound(value) ==
    IF EitherMateN(value) = 0 THEN BOUND_EXACT
    ELSE IF EitherMateN(value) < 0 THEN BOUND_UPPER ELSE BOUND_LOWER

\* The value stored by SetTablebaseRankBound once the bound is in place.
BoundedAverage(t, n, bound) ==
    IF t[n].valueWeight = 0 THEN BoundScore(bound)
    ELSE BoundedValue(t, n, t[n].valueAverage)

\* The node after construction and expansion: no bound, or the loss bound of a
\* tablebase probe made by the thread that owned the expansion, which has
\* divided the prior already.
InitDemote ==
    /\ SearchIdle /\ CacheIdle /\ alloc = NotAllocated /\ search = NoSearch
    /\ ExtraIdle /\ demoteOthersIdle
    /\ \E prior \in DemotePriors, probed \in BOOLEAN, weight \in {0, 1},
          average \in {Scores.loss, Scores.draw} :
          LET fresh == [tablebaseRankBound |-> BuildTablebaseRankBound(0, BOUND_NONE),
                        terminalValue |-> NonTerminal,
                        valueWeight |-> weight, valueAverage |-> average,
                        quantizedPrior |-> prior]
              bounded == [fresh EXCEPT
                            !.tablebaseRankBound =
                                BuildTablebaseRankBound(LossRank, BOUND_UPPER)]
              probe == [bounded EXCEPT
                          !.valueAverage =
                              BoundedAverage(DemotedNode :> bounded, DemotedNode,
                                             BOUND_UPPER),
                          !.quantizedPrior =
                              IF Demotes(BOUND_NONE, BOUND_UPPER)
                              THEN prior \div 1000 ELSE prior]
          IN demote = [node |-> DemotedNode :> (IF probed THEN probe ELSE fresh),
                       original |-> prior,
                       pc |-> [t \in DemoteThreads |-> "idle"],
                       bound |-> [t \in DemoteThreads |-> BOUND_NONE],
                       rank |-> [t \in DemoteThreads |-> 0],
                       previous |-> [t \in DemoteThreads |-> BOUND_NONE],
                       loaded |-> [t \in DemoteThreads |-> 0],
                       calls |-> 0,
                       divisions |-> IF probed THEN 1 ELSE 0]

DemoteFrame ==
    UNCHANGED <<searchVars, cacheVars, alloc, timeVars, extraVars, demoteOthers>>

\* terminalValue.store(value)
DemoteStoreTerminal(thread, mateN) ==
    /\ demote.pc[thread] = "idle"
    /\ demote.calls < MaxDemoteCalls
    /\ demote' = [demote EXCEPT
                    !.node[DemotedNode].terminalValue = OpponentMateIn(mateN),
                    !.bound[thread] = TerminalBound(OpponentMateIn(mateN)),
                    !.pc[thread] = "rank",
                    !.calls = @ + 1]
    /\ DemoteFrame

\* TablebaseRank(): the rank this call keeps.
DemoteLoadRank(thread) ==
    /\ demote.pc[thread] = "rank"
    /\ demote' = [demote EXCEPT
                    !.rank[thread] = TablebaseRank(demote.node, DemotedNode),
                    !.pc[thread] = "exchange"]
    /\ DemoteFrame

\* tablebaseRankBound.exchange(...)
DemoteExchange(thread) ==
    /\ demote.pc[thread] = "exchange"
    /\ demote' = [demote EXCEPT
                    !.previous[thread] = GetBound(demote.node, DemotedNode),
                    !.node[DemotedNode].tablebaseRankBound =
                        BuildTablebaseRankBound(demote.rank[thread], demote.bound[thread]),
                    !.pc[thread] = "average"]
    /\ DemoteFrame

\* The store of valueAverage, then the test of the previous bound.
DemoteStoreAverage(thread) ==
    /\ demote.pc[thread] = "average"
    /\ demote' = [demote EXCEPT
                    !.node[DemotedNode].valueAverage =
                        BoundedAverage(demote.node, DemotedNode, demote.bound[thread]),
                    !.pc[thread] =
                        IF Demotes(demote.previous[thread], demote.bound[thread])
                        THEN "load" ELSE "idle"]
    /\ DemoteFrame

\* quantizedPrior /= 1000, the read.
DemoteLoadPrior(thread) ==
    /\ demote.pc[thread] = "load"
    /\ demote' = [demote EXCEPT
                    !.loaded[thread] = demote.node[DemotedNode].quantizedPrior,
                    !.pc[thread] = "divide"]
    /\ DemoteFrame

\* quantizedPrior /= 1000, the write.
DemoteStorePrior(thread) ==
    /\ demote.pc[thread] = "divide"
    /\ demote' = [demote EXCEPT
                    !.node[DemotedNode].quantizedPrior = demote.loaded[thread] \div 1000,
                    !.divisions = @ + 1,
                    !.pc[thread] = "idle"]
    /\ DemoteFrame

NextDemote ==
    \E thread \in DemoteThreads :
        \/ \E mateN \in DemoteMateNs : DemoteStoreTerminal(thread, mateN)
        \/ DemoteLoadRank(thread)
        \/ DemoteExchange(thread)
        \/ DemoteStoreAverage(thread)
        \/ DemoteLoadPrior(thread)
        \/ DemoteStorePrior(thread)

SpecDemote == InitDemote /\ [][NextDemote]_vars

\* The threads between the exchange that saw the transition and the end of
\* their division.
Dividing == {t \in DemoteThreads : demote.pc[t] \in {"load", "divide"}}
ObservedTransition ==
    {t \in DemoteThreads :
        /\ demote.pc[t] \in {"average", "load", "divide"}
        /\ demote.previous[t] # BOUND_UPPER}

\* C34: of the concurrent calls that move the node to BOUND_UPPER exactly one
\* observes another previous bound, and quantizedPrior is divided by 1000 once
\* for the transition and not again while the bound stays BOUND_UPPER.
C34_DemotedOnce ==
    /\ demote.divisions + Cardinality(Dividing) <= 1
    /\ Cardinality(ObservedTransition) <= 1
    /\ demote.divisions = 1 =>
          demote.node[DemotedNode].quantizedPrior = demote.original \div 1000
    /\ demote.divisions = 0 =>
          demote.node[DemotedNode].quantizedPrior = demote.original
    /\ (GetBound(demote.node, DemotedNode) = BOUND_UPPER
        /\ \A t \in DemoteThreads : demote.pc[t] = "idle") => demote.divisions = 1

\* Two calls overlap on a node without a bound: one saw the transition and is
\* about to write the divided prior, the other saw BOUND_UPPER after it.
C34_Witness ==
    \E t, u \in DemoteThreads :
        /\ demote.pc[t] = "divide"
        /\ demote.previous[t] = BOUND_NONE
        /\ demote.pc[u] = "average"
        /\ demote.previous[u] = BOUND_UPPER
        /\ demote.original = 65535


\* --------------------------------------------- the AZ-PUCT score of a child
\* PuctContext::CalculateAzPuctScore on one child. The floats are kept as exact
\* ratios: the products with a power of two are exact in binary floating point.

MaxMateN == 4
MaxVirtualExploration == 3
ExplorationNumerators == {1, 3}
ChildPriors == {[num |-> 1, den |-> 4], [num |-> 1, den |-> 1]}
ChildTerminalValues ==
    {NonTerminal, Draw} \cup {MateIn(m) : m \in 1..MaxMateN}
                        \cup {OpponentMateIn(m) : m \in 1..MaxMateN}

Ratio(num, den) == [num |-> num, den |-> den]
RatioTimes(a, b) == Ratio(a.num * b.num, a.den * b.den)
RatioPlus(a, b) == Ratio(a.num * b.den + b.num * a.den, a.den * b.den)
RatioEqual(a, b) == a.num * b.den = b.num * a.den
RatioZero == Ratio(0, 1)

\* The mate term as if every mate-in-m halved m times.
MateTermHalving(value) == Ratio(1, 2 ^ value)

\* mateTerm of TerminalValue::MateScore for value > 0. MaxMateN keeps 1 << value
\* within the 31 bits of an int.
MateTerm(value) == IF value = 1 THEN Ratio(1, 1) ELSE Ratio(1, 2 ^ value)

\* TerminalValue::MateScore
MateScore(terminalValue, explorationRate) ==
    LET value == EitherMateN(terminalValue)
    IN IF value > 0 THEN RatioTimes(explorationRate, MateTerm(value)) ELSE RatioZero

\* PuctContext::CalculateAzPuctScore: its three terms and their sum.
CalculateAzPuctScore(child, explorationNumerator) ==
    LET explorationRate == Ratio(explorationNumerator, child.virtualExploration + 1)
        priorScore == RatioTimes(explorationRate, child.prior)
        mateScore == MateScore(child.terminalValue, explorationRate)
    IN [explorationRate |-> explorationRate, priorScore |-> priorScore,
        mateScore |-> mateScore,
        score |-> RatioPlus(Ratio(child.valueWithVirtualLoss, 1),
                            RatioPlus(priorScore, mateScore))]

InitAzPuct ==
    /\ SearchIdle /\ CacheIdle /\ alloc = NotAllocated /\ search = NoSearch
    /\ ExtraIdle /\ azPuctOthersIdle
    /\ \E terminalValue \in ChildTerminalValues, virtualExploration \in 0..MaxVirtualExploration,
          prior \in ChildPriors, value \in {Scores.loss, Scores.draw, Scores.win},
          numerator \in ExplorationNumerators :
          azPuct = [phase |-> "child",
                    child |-> [terminalValue |-> terminalValue,
                               virtualExploration |-> virtualExploration,
                               prior |-> prior, valueWithVirtualLoss |-> value],
                    explorationNumerator |-> numerator,
                    terms |-> <<>>]

AzPuctFrame ==
    UNCHANGED <<searchVars, cacheVars, alloc, timeVars, extraVars, azPuctOthers>>

ScoreChild ==
    /\ azPuct.phase = "child"
    /\ azPuct' = [azPuct EXCEPT
                    !.phase = "scored",
                    !.terms = CalculateAzPuctScore(azPuct.child, azPuct.explorationNumerator)]
    /\ AzPuctFrame

NextAzPuct == ScoreChild

SpecAzPuct == InitAzPuct /\ [][NextAzPuct]_vars

ScoredMateN == EitherMateN(azPuct.child.terminalValue)

\* explorationRate * 2^(-m)
HalvedRate(m) == RatioTimes(azPuct.terms.explorationRate, Ratio(1, 2 ^ m))

SumOfTerms(mateScore) ==
    RatioPlus(Ratio(azPuct.child.valueWithVirtualLoss, 1),
              RatioPlus(azPuct.terms.priorScore, mateScore))

PathsThrough(n) == {s \in Slots : n \in Range(slot[s].searchPath)}

\* A slot between Backpropagate and the searchPath.clear() that ends RunMcts:
\* its path still lists the nodes, their visitingCount is released already.
ReleasedNotCleared(s) == slot[s].pc \in {"mate", "mateStore", "pv", "pvStore", "publish"}

PathEmptied(s) == slot[s].searchPath # <<>> /\ slot'[s].searchPath = <<>>
ReleasingStep(s) ==
    \/ slot[s].pc = "publish"
    \/ failedNodeCount' = failedNodeCount + 1
    \/ ~finalized[ThreadOf[s]] /\ finalized'[ThreadOf[s]]

\* The visitingCount a step takes from node n: one per slot that stops holding
\* n or that runs Backpropagate over n.
ReleasedIn(n) ==
    {s \in PathsThrough(n) :
        \/ ~ReleasedNotCleared(s) /\ ReleasedNotCleared(s)'
        \/ ~ReleasedNotCleared(s) /\ n \notin Range(slot'[s].searchPath)}

C36_Step ==
    /\ \A s \in Slots : PathEmptied(s) => ReleasingStep(s)
    /\ \A n \in Nodes :
          tree'[n].visitingCount <= tree[n].visitingCount =>
              tree[n].visitingCount - tree'[n].visitingCount = Cardinality(ReleasedIn(n))

PvNodes == 1..5
PvRoot == RootNode
PvMoves == (1 :> <<2, 3>>) @@ (2 :> <<4, 5>>)
PvPaths == {<<1, 2, 4>>, <<1, 2, 5>>, <<1, 3>>}
PvThreads == {1, 2}
PrimaryThread == Smallest(PvThreads)
MaxPvSims == 3

NewPvNode(n) ==
    [NewNode EXCEPT !.children = IF n \in DOMAIN PvMoves THEN PvMoves[n] ELSE <<>>,
                    !.childCount = IF n \in DOMAIN PvMoves THEN Len(PvMoves[n]) ELSE 0,
                    !.expansion = IF n \in DOMAIN PvMoves THEN ExpExpanded ELSE ExpNone]

IdleWorker == [pc |-> "idle", path |-> <<>>, index |-> 0, isPrincipalVariation |-> FALSE]

RECURSIVE PvBelow(_, _)
\* The walk of PrintPrincipalVariation: the nodes under n along BestChild.
PvBelow(t, n) ==
    IF BestChild(t, n) = NoNode THEN <<>>
    ELSE <<BestChild(t, n)>> \o PvBelow(t, BestChild(t, n))

InitPvs ==
    /\ SearchIdle /\ CacheIdle /\ alloc = NotAllocated /\ search = NoSearch
    /\ ExtraIdle /\ pvsOthersIdle
    /\ \E threads \in 1..2 :
          pvs = [tree |-> [n \in PvNodes |-> NewPvNode(n)],
                 threads |-> threads,
                 worker |-> [t \in PvThreads |-> IdleWorker],
                 changed |-> FALSE,
                 check |-> [pc |-> "idle"],
                 reported |-> <<>>,
                 simulations |-> 0]

PvsFrame ==
    UNCHANGED <<searchVars, cacheVars, alloc, timeVars, extraVars, pvsOthers>>

\* The next level of the loop of UpdatePrincipalVariation, or its end.
PvNextLevel(w) ==
    IF w.index + 1 >= Len(w.path)
    THEN IdleWorker
    ELSE [w EXCEPT !.pc = "level", !.index = @ + 1]

\* RunMcts up to UpdatePrincipalVariation: the visits of the path are counted.
PvBackpropagate(thread, path) ==
    /\ thread <= pvs.threads
    /\ pvs.worker[thread].pc = "idle"
    /\ thread = PrimaryThread => pvs.check.pc = "idle"
    /\ pvs.simulations < MaxPvSims
    /\ pvs' = [pvs EXCEPT
                 !.tree = [n \in PvNodes |->
                             IF n \in Range(path)
                             THEN [pvs.tree[n] EXCEPT !.visitCount = @ + 1]
                             ELSE pvs.tree[n]],
                 !.worker[thread] = [pc |-> "level", path |-> path, index |-> 1,
                                     isPrincipalVariation |-> TRUE],
                 !.simulations = @ + 1]
    /\ PvsFrame

\* One level: WorseThan(searchPath[i].node->BestChild(), searchPath[i + 1].node).
PvLevel(thread) ==
    /\ pvs.worker[thread].pc = "level"
    /\ LET w == pvs.worker[thread]
           node == w.path[w.index]
           next == w.path[w.index + 1]
       IN pvs' = [pvs EXCEPT
                    !.worker[thread] =
                        IF WorseThan(pvs.tree, BestChild(pvs.tree, node), next)
                        THEN [w EXCEPT !.pc = "store"]
                        ELSE PvNextLevel([w EXCEPT
                                 !.isPrincipalVariation =
                                     @ /\ (BestChild(pvs.tree, node) = next)])]
    /\ PvsFrame

\* searchPath[i].node->SetBestChild(searchPath[i + 1].node)
PvStoreBestChild(thread) ==
    /\ pvs.worker[thread].pc = "store"
    /\ LET w == pvs.worker[thread]
       IN pvs' = [pvs EXCEPT
                    !.tree = SetBestChild(@, w.path[w.index], w.path[w.index + 1]),
                    !.worker[thread] =
                        IF w.isPrincipalVariation THEN [w EXCEPT !.pc = "flag"]
                        ELSE PvNextLevel(w)]
    /\ PvsFrame

\* principalVariationChanged.store(true)
PvStoreChanged(thread) ==
    /\ pvs.worker[thread].pc = "flag"
    /\ pvs' = [pvs EXCEPT !.changed = TRUE,
                          !.worker[thread] = PvNextLevel(pvs.worker[thread])]
    /\ PvsFrame

\* CheckPrincipalVariation: the exchange, and whether five seconds have passed.
CheckExchange(elapsed) ==
    /\ pvs.worker[PrimaryThread].pc = "idle"
    /\ pvs.check.pc = "idle"
    /\ pvs' = [pvs EXCEPT !.changed = FALSE,
                          !.check.pc = IF pvs.changed \/ elapsed THEN "report" ELSE "idle"]
    /\ PvsFrame

\* PrintPrincipalVariation: the walk down the BestChild pointers.
CheckReport ==
    /\ pvs.check.pc = "report"
    /\ pvs' = [pvs EXCEPT !.reported = PvBelow(pvs.tree, PvRoot), !.check.pc = "idle"]
    /\ PvsFrame

NextPvs ==
    \/ \E thread \in PvThreads :
          \/ \E path \in PvPaths : PvBackpropagate(thread, path)
          \/ PvLevel(thread)
          \/ PvStoreBestChild(thread)
          \/ PvStoreChanged(thread)
    \/ \E elapsed \in BOOLEAN : CheckExchange(elapsed)
    \/ CheckReport

SpecPvs == InitPvs /\ [][NextPvs]_vars

\* No update is under way and the flag is down.
PvQuiet ==
    /\ \A t \in PvThreads : pvs.worker[t].pc = "idle"
    /\ pvs.check.pc = "idle"
    /\ ~pvs.changed

\* A step writes the BestChild of a node that the root then reaches through
\* BestChild pointers, and the writer's next step raises the flag.
WritesOnPv(thread) ==
    /\ pvs.worker[thread].pc = "store"
    /\ pvs'.worker[thread].pc # "store"
    /\ pvs'.tree # pvs.tree
    /\ LET node == pvs.worker[thread].path[pvs.worker[thread].index]
       IN node = PvRoot \/ node \in Range(PvBelow(pvs'.tree, PvRoot))

C37_Step == \A thread \in PvThreads : WritesOnPv(thread) => pvs'.worker[thread].pc = "flag"

\* C37 as stated: every write of a BestChild on the principal variation is
\* followed by the store of principalVariationChanged, and once the flag has
\* been consumed the principal variation reported is the current one.
C37_NoChangeLost ==
    /\ [](PvQuiet => pvs.reported = PvBelow(pvs.tree, PvRoot))
    /\ [][C37_Step]_vars

\* With one search thread no change is lost.
C37_NoChangeLostOneThread ==
    /\ [](pvs.threads = 1 => (PvQuiet => pvs.reported = PvBelow(pvs.tree, PvRoot)))
    /\ [][pvs.threads = 1 => C37_Step]_vars

\* The flag is down, nothing is under way, and the last report does not show the
\* line the BestChild pointers now give.
C37_ChangeLost ==
    /\ PvQuiet
    /\ pvs.reported # <<>>
    /\ pvs.reported # PvBelow(pvs.tree, PvRoot)


\* ------------------------------------------------------ pruning, call by call

LiveNodes(h) == {a \in HeapNodes : h.status[a] = Live}

\* What PruneExcept(root, except) leaves of heap h, whose root is an expanded
\* node with the child "except": the root is a new node that copies except and
\* holds except's children; except's descendants are untouched and live; every
\* other node that was live is freed once; nothing reachable is freed.
PruneExceptSafe(h, except) ==
    LET after == PruneExcept([h EXCEPT !.root = except], h.root, except)
        kept == Subtree(h.t, except) \ {except}
    IN /\ after.root \notin LiveNodes(h) \cup {NoNode}
       /\ after.t[after.root] = h.t[except]
       /\ \A a \in kept : after.t[a] = h.t[a]
       /\ LiveNodes(after) = kept \cup {after.root}
       /\ Subtree(after.t, after.root) = kept \cup {after.root}
       /\ \A a \in LiveNodes(h) \ kept : after.status[a] = Freed
       /\ \A a \in HeapNodes : after.status[a] # FreedTwice

\* What PruneAll leaves: no root, every live node freed once.
PruneAllSafe(h) ==
    LET after == PruneAll(h)
    IN /\ after.root = NoNode
       /\ LiveNodes(after) = {}
       /\ \A a \in LiveNodes(h) : after.status[a] = Freed
       /\ \A a \in HeapNodes : after.status[a] # FreedTwice

\* A position update with one new move that matches a child is one PruneExcept
\* call; an update that cannot reuse the position is PruneAll and a new root.
C39_Step ==
    UpdatesPosition =>
        LET call == searchGame'.call
            after == [t |-> tree', status |-> searchGame'.status, root |-> searchGame'.root]
            except == Descend(tree, searchGame.root, call.moves, Len(call.moves))
        IN /\ (call.reused /\ call.tail = 1 /\ except # NoNode) =>
                 after = PruneExcept([Heap EXCEPT !.root = except], searchGame.root, except)
           /\ ~call.reused => after = WithNewRoot(PruneAll(Heap))

\* C39: on every tree the search builds, PruneExcept leaves a copy of except as
\* the root with except's child arrays and descendants intact and frees every
\* other node once; PruneAll frees every node once and leaves no root; nothing
\* freed stays reachable.
C39_PruningSafe ==
    /\ [](searchGame.root # NoNode =>
             /\ LiveNodes(Heap) = Subtree(tree, searchGame.root)
             /\ PruneAllSafe(Heap)
             /\ UnusedNodes(Heap) # {} =>
                   \A i \in 1..Len(tree[searchGame.root].children) :
                       PruneExceptSafe(Heap, tree[searchGame.root].children[i]))
    /\ [][C39_Step]_vars

\* PruneExcept has run on a root with two children, the kept one expanded: the
\* root is a copy with its two children live, and three nodes are freed.
C39_Witness ==
    /\ searchGame.call.reused
    /\ searchGame.call.tail = 1
    /\ searchGame.root # NoNode
    /\ Len(tree[searchGame.root].children) = 2
    /\ LiveNodes(Heap) = Subtree(tree, searchGame.root)
    /\ Cardinality({a \in HeapNodes : searchGame.status[a] = Freed}) = 3


\* ------------------------------------------------------------- SyncQueue
\* One SyncQueue, a producer that pushes when the slot is empty, and up to three
\* consumers that call Pop or Poll. Every access is under _mutex, so a critical
\* section is one step; a Pop that finds the slot empty waits on _condition and
\* is woken by notify_one or spuriously, then tests _hasItem again.

Consumers == 1..3
Items == {"a", "b"}
NoItem == "none"

\* The consumer takes the item but leaves the slot marked full.
TakeKeepingItem(q, consumer) ==
    [q EXCEPT !.got[consumer] = q.item, !.holders = @ \cup {consumer}]

\* _hasItem = false; return _item (Pop), item = _item (Poll).
Take(q, consumer) ==
    [q EXCEPT !.hasItem = FALSE, !.got[consumer] = q.item, !.holders = @ \cup {consumer}]

\* The consumers waiting on _condition.
Waiting(q) == {c \in Consumers : q.pc[c] = "waiting"}

\* A consumer is inside a Pop call that has not returned.
InPop(c) == queue.pc[c] \in {"waiting", "woken"}

InitQueue ==
    /\ SearchIdle /\ CacheIdle /\ alloc = NotAllocated /\ search = NoSearch
    /\ ExtraIdle /\ queueOthersIdle
    /\ \E consumers \in Consumers :
          queue = [hasItem |-> FALSE, item |-> NoItem, consumers |-> consumers,
                   pc |-> [c \in Consumers |-> "idle"],
                   got |-> [c \in Consumers |-> NoItem],
                   result |-> [c \in Consumers |-> "none"],
                   pushedSince |-> [c \in Consumers |-> FALSE],
                   pushed |-> FALSE, holders |-> {}]

QueueFrame ==
    UNCHANGED <<searchVars, cacheVars, alloc, timeVars, extraVars, queueOthers>>

\* SyncQueue::Push, called while the slot is empty; notify_one wakes one of the
\* waiting consumers, if any.
Push(item) ==
    /\ ~queue.hasItem
    /\ \E woken \in IF Waiting(queue) = {} THEN {0} ELSE Waiting(queue) :
          queue' = [queue EXCEPT
                      !.hasItem = TRUE, !.item = item, !.pushed = TRUE, !.holders = {},
                      !.pc = [c \in Consumers |->
                                IF c = woken THEN "woken" ELSE queue.pc[c]],
                      !.pushedSince = [c \in Consumers |->
                                         queue.pushedSince[c] \/ InPop(c)]]
    /\ QueueFrame

\* SyncQueue::Pop up to its return or its wait.
Pop(consumer) ==
    /\ consumer <= queue.consumers
    /\ queue.pc[consumer] = "idle"
    /\ queue' = IF queue.hasItem
                THEN [Take(queue, consumer) EXCEPT !.result[consumer] = "popped"]
                ELSE [queue EXCEPT !.pc[consumer] = "waiting",
                                   !.result[consumer] = "none",
                                   !.pushedSince[consumer] = FALSE]
    /\ QueueFrame

\* A waiting consumer wakes without a notification.
SpuriousWakeup(consumer) ==
    /\ queue.pc[consumer] = "waiting"
    /\ queue' = [queue EXCEPT !.pc[consumer] = "woken"]
    /\ QueueFrame

\* The woken consumer holds the mutex again and tests the predicate of wait.
PopWake(consumer) ==
    /\ queue.pc[consumer] = "woken"
    /\ queue' = IF queue.hasItem
                THEN [Take(queue, consumer) EXCEPT !.pc[consumer] = "idle",
                                                   !.result[consumer] = "popped",
                                                   !.pushedSince[consumer] = FALSE]
                ELSE [queue EXCEPT !.pc[consumer] = "waiting"]
    /\ QueueFrame

\* SyncQueue::Poll
Poll(consumer) ==
    /\ consumer <= queue.consumers
    /\ queue.pc[consumer] = "idle"
    /\ queue' = IF queue.hasItem
                THEN [Take(queue, consumer) EXCEPT !.result[consumer] = "polled"]
                ELSE [queue EXCEPT !.result[consumer] = "empty"]
    /\ QueueFrame

NextQueue ==
    \/ \E item \in Items : Push(item)
    \/ \E consumer \in Consumers :
          \/ Pop(consumer)
          \/ SpuriousWakeup(consumer)
          \/ PopWake(consumer)
          \/ Poll(consumer)

SpecQueue == InitQueue /\ [][NextQueue]_vars

\* A thread that has been woken runs again: it locks the mutex and tests the
\* predicate.
FairSpecQueue == SpecQueue /\ \A consumer \in Consumers : WF_vars(PopWake(consumer))

\* The item pushed last is in the slot or with exactly one consumer.
HandedOffOnce ==
    /\ Cardinality(queue.holders) <= 1
    /\ queue.hasItem => queue.holders = {}
    /\ (queue.pushed /\ ~queue.hasItem) => Cardinality(queue.holders) = 1
    /\ \A c \in queue.holders : queue.got[c] = queue.item

\* A Poll on an empty slot returns false and leaves the caller outside any wait.
PollStep ==
    \A c \in Consumers :
        (queue.pc[c] = "idle" /\ queue'.result[c] \in {"empty", "polled"}
         /\ queue'.result[c] # queue.result[c])
            => /\ queue'.pc[c] = "idle"
               /\ (queue'.result[c] = "empty") <=> ~queue.hasItem

ReturnsAfterPush(c) == (InPop(c) /\ queue.pushedSince[c]) ~> ~InPop(c)

\* C40 as stated: every pushed item goes to exactly one consumer, Poll returns
\* false on an empty slot without waiting, and a Pop blocked on an empty slot
\* returns after the next Push.
C40_HandOff ==
    /\ []HandedOffOnce
    /\ [][PollStep]_vars
    /\ \A c \in Consumers : ReturnsAfterPush(c)

\* A blocked Pop returns once an item is in the slot, unless another consumer
\* takes that item.
ReturnsUnlessTaken(c) == (InPop(c) /\ queue.hasItem) ~> (~InPop(c) \/ ~queue.hasItem)

\* C40, amended: a Pop blocked on an empty slot returns after the next Push
\* unless another consumer obtains the pushed item first, and always when it is
\* the queue's only consumer; the hand-off and Poll hold as stated.
C40_HandOffOneWaiter ==
    /\ []HandedOffOnce
    /\ [][PollStep]_vars
    /\ \A c \in Consumers : ReturnsUnlessTaken(c)
    /\ \A c \in Consumers : (queue.consumers = 1) => ReturnsAfterPush(c)

\* A blocked Pop was notified by a Push and another consumer's Poll took the
\* item first: the Pop is still blocked with the slot empty.
C40_PopStillBlocked ==
    \E c, o \in Consumers :
        /\ c # o
        /\ queue.pc[c] = "woken"
        /\ queue.pushedSince[c]
        /\ ~queue.hasItem
        /\ queue.result[o] = "polled"
        /\ queue.holders = {o}

\* The only consumer waited in Pop, the producer pushed and notified it, and it
\* is about to take the item and return.
C40_Witness ==
    /\ queue.consumers = 1
    /\ queue.pc[1] = "woken"
    /\ queue.pushedSince[1]
    /\ queue.hasItem
    /\ queue.item = "b"
    /\ queue.got[1] = "a"
====
